---- MODULE Spec2Model ----
(***************************************************************************)
(* A model of the schema-directed BER/DER -> JSONL decoder of              *)
(* src/src/main.rs: the TLV reader (parse_tlv, find_eoc), the decoder      *)
(* dispatch (write_type, write_sequence, write_sequence_of, write_choice)  *)
(* and the file driver (process_file, find_next_root_tlv).                 *)
(*                                                                         *)
(* Conventions.  A byte is a number 0..255 and a slice is a sequence of    *)
(* bytes.  Offsets are the 0-based offsets of the source: At(d, i) is      *)
(* d[i] of the source and Slice(d, a, b) is &d[a..b].  A u32 is the pair   *)
(* <<hi, lo>> of its 16-bit halves and a usize is the sequence of its      *)
(* octets, most significant first, so that the arithmetic of the source    *)
(* keeps its width.  Text written to the output is a sequence of           *)
(* one-character strings.                                                  *)
(***************************************************************************)
EXTENDS Integers, Sequences, FiniteSets, TLC

VARIABLES
    overflow_checks, \* the build: TRUE = overflow checks on (debug), FALSE = wrapping (release)
    schema_text,     \* the schema file read by main, as tokens
    data,            \* the byte buffer a call works on (the mapped input file)
    offset,          \* parse_tlv's offset argument / process_file's cursor
    tlv,             \* the result of the last parse_tlv call: (Tlv, next offset), none, or abort
    schema,          \* the compiled schema (DerDecoder.schema)
    hash_order,      \* the iteration order of the schema's hash maps in this run
    type_name,       \* the type a decode call is made for / the root type
    out,             \* the text written to the output so far
    root_start,      \* find_next_root_tlv's cursor (its start)
    count,           \* process_file's count of records
    records,         \* the root TLVs written so far: where each starts and ends in data
    prev,            \* what the previous run over the same file and schema wrote
    inputs,          \* main's input_files: the expanded, sorted, de-duplicated paths
    workers,         \* per input file: where its process_file call stands, and its result
    outputs,         \* the files of the output directory: file name -> content
    reports,         \* the lines main prints per file after collect()
    pc               \* control location

vars == <<overflow_checks, schema_text, data, offset, tlv, schema, hash_order, type_name, out,
          root_start, count, records, prev, inputs, workers, outputs, reports, pc>>

\* the state of a run over several files
driver_vars == <<inputs, workers, outputs, reports>>

----------------------------------------------------------------------------
(* Bounds of the model (not program constants).                            *)

\* longest buffer drawn exhaustively over TlvBytes
MaxLen == 4
\* deepest nesting of indefinite-length TLVs in the nested buffers
MaxDepth == 3
\* the count of successive calls on a slice that is not shorter stops here
MaxSameSlice == 3
\* most paths given on the command line of a run over several files
MaxInputs == 3
\* most length octets of a long-form length in the stress buffers
MaxLenOctets == 9
\* most TLVs a body is put together from
MaxItems == 2
\* most pieces an input file is put together from
MaxFileItems == 2
\* longest body drawn exhaustively over BodyBytes
MaxBody == 3
\* most TLVs of a body that differ from each other in encoding only
MaxDispatchItems == 2
\* most continuation octets of a long-form tag
MaxTagOctets == 6

----------------------------------------------------------------------------
(* Slices.                                                                 *)

At(d, i) == d[i + 1]

Slice(d, a, b) == SubSeq(d, a + 1, b)

\* F applied to the value of x, x being evaluated once
Bind(x, F(_)) == CHOOSE r \in {F(v) : v \in {x}} : TRUE

RECURSIVE SeqsUpTo(_, _)
SeqsUpTo(S, n) ==
    IF n = 0 THEN {<<>>}
    ELSE LET shorter == SeqsUpTo(S, n - 1)
         IN  shorter \cup {Append(s, b) : s \in {t \in shorter : Len(t) = n - 1}, b \in S}

----------------------------------------------------------------------------
(* u32 tag numbers: <<hi, lo>>, value hi * 65536 + lo.                     *)

U32(n) == <<n \div 65536, n % 65536>>

\* tag_num = (tag_num << 7) | (b & 0x7F) on a u32: bits shifted out are lost
shl7_or(t, b) ==
    LET lo == t[2] * 128 + (b % 128)
    IN  <<(t[1] * 128 + lo \div 65536) % 65536, lo % 65536>>

----------------------------------------------------------------------------
(* usize lengths: 8 octets, most significant first.                        *)

UsizeOctets == 8

usize_zero == [i \in 1..UsizeOctets |-> 0]

usize_of_byte(b) == [i \in 1..UsizeOctets |-> IF i = UsizeOctets THEN b ELSE 0]

\* l = (l << 8) | b on a usize: the top octet is shifted out
shl8_or(l, b) == [i \in 1..UsizeOctets |-> IF i = UsizeOctets THEN b ELSE l[i + 1]]

\* the value of the three low octets
usize_low(l) ==
    l[UsizeOctets - 2] * 65536 + l[UsizeOctets - 1] * 256 + l[UsizeOctets]

\* l < 2^24: its value is usize_low(l)
usize_is_small(l) == \A i \in 1..(UsizeOctets - 3) : l[i] = 0

\* l >= 2^64 - 2^24: 2^64 - l is usize_neg(l)
usize_is_neg(l) == \A i \in 1..(UsizeOctets - 3) : l[i] = 255

usize_neg(l) == 16777216 - usize_low(l)

\* off + l overflows the usize (off < 2^24): a panic with overflow checks,
\* the wrapped sum off - usize_neg(l) without
add_overflows(off, l) == usize_is_neg(l) /\ usize_neg(l) <= off

\* off + l > n, when off + l does not overflow (off, n < 2^24)
add_exceeds(off, l, n) ==
    IF usize_is_small(l) THEN off + usize_low(l) > n ELSE TRUE

----------------------------------------------------------------------------
(* The TLV reader.  A Tlv holds the fields of the source's struct; value    *)
(* and raw are borrowed slices of the buffer, that is a position in the    *)
(* buffer (value_start, raw_start) and the bytes from there.               *)

NoTlv ==
    [st |-> "none", tag_class |-> 0, constructed |-> FALSE, tag_num |-> U32(0),
     length |-> 0, value |-> <<>>, value_start |-> 0, raw |-> <<>>, raw_start |-> 0,
     next |-> 0]

\* the call does not return: a panic unwinds through the caller
AbortTlv == [NoTlv EXCEPT !.st = "abort"]

\* the long-form tag loop: consume base-128 octets until one has bit 7 clear
RECURSIVE long_tag(_, _, _)
long_tag(d, off, tag_num) ==
    IF off < Len(d)
    THEN LET b == At(d, off)
             t == shl7_or(tag_num, b)
         IN  IF b \div 128 = 0
             THEN [off |-> off + 1, tag_num |-> t]
             ELSE long_tag(d, off + 1, t)
    ELSE [off |-> off, tag_num |-> tag_num]

\* the tag: its number and the offset after it
read_tag(d, off) ==
    IF At(d, off) % 32 = 31
    THEN long_tag(d, off + 1, U32(0))
    ELSE [off |-> off + 1, tag_num |-> U32(At(d, off) % 32)]

\* the long-form length loop over n octets
RECURSIVE long_len(_, _, _, _)
long_len(d, off, n, l) ==
    IF n = 0 THEN l ELSE long_len(d, off + 1, n - 1, shl8_or(l, At(d, off)))

EocNone == [st |-> "none", off |-> 0]

EocAbort == [st |-> "abort", off |-> 0]

\* one definite-length TLV inside find_eoc: skip its content
\* (off is the offset after the length octets, l the length)
eoc_skip(d, start, off, l) ==
    IF add_overflows(off, l)
    THEN IF overflow_checks
         THEN EocAbort
         ELSE IF off - usize_neg(l) <= start
              THEN EocNone
              ELSE [st |-> "go", off |-> off - usize_neg(l)]
    ELSE IF add_exceeds(off, l, Len(d))
         THEN EocNone
         ELSE IF off + usize_low(l) <= start
              THEN EocNone
              ELSE [st |-> "go", off |-> off + usize_low(l)]

RECURSIVE eoc_loop(_, _, _)
eoc_loop(d, off, depth) ==
    IF ~(off + 1 < Len(d)) THEN EocNone
    ELSE IF At(d, off) = 0 /\ At(d, off + 1) = 0
    THEN IF depth - 1 = 0
         THEN [st |-> "some", off |-> off + 2]
         ELSE eoc_loop(d, off + 2, depth - 1)
    ELSE LET constructed == (At(d, off) \div 32) % 2 # 0
             t == read_tag(d, off)
         IN  IF t.off >= Len(d) THEN EocNone
             ELSE LET len_byte == At(d, t.off)
                      o == t.off + 1
                  IN  IF len_byte = 128
                      THEN IF ~constructed THEN EocNone
                           ELSE eoc_loop(d, o, depth + 1)
                      ELSE LET n == len_byte % 128
                               s == IF len_byte >= 128
                                    THEN IF n = 0 \/ o + n > Len(d)
                                         THEN EocNone
                                         ELSE eoc_skip(d, off, o + n,
                                                       long_len(d, o, n, usize_zero))
                                    ELSE eoc_skip(d, off, o, usize_of_byte(len_byte))
                           IN  IF s.st = "go" THEN eoc_loop(d, s.off, depth) ELSE s

\* a count of the open TLVs that starts one too high
find_eoc_depth_two(d, off) == eoc_loop(d, off, 2)

\* Some(offset after the end-of-contents that balances the opener), None, or a panic
find_eoc(d, off) == eoc_loop(d, off, 1)

\* a slip in the slices: raw taken before the content is skipped
definite_tlv_raw_header_only(d, start, off, length) ==
    [st |-> "some",
     tag_class |-> At(d, start) \div 64,
     constructed |-> (At(d, start) \div 32) % 2 # 0,
     tag_num |-> read_tag(d, start).tag_num,
     length |-> length,
     value |-> Slice(d, off, off + length),
     value_start |-> off,
     raw |-> Slice(d, start, off),
     raw_start |-> start,
     next |-> off + length]

\* the Tlv of a definite-length triple (off is the offset after the length octets)
definite_tlv(d, start, off, length) ==
    [st |-> "some",
     tag_class |-> At(d, start) \div 64,
     constructed |-> (At(d, start) \div 32) % 2 # 0,
     tag_num |-> read_tag(d, start).tag_num,
     length |-> length,
     value |-> Slice(d, off, off + length),
     value_start |-> off,
     raw |-> Slice(d, start, off + length),
     raw_start |-> start,
     next |-> off + length]

\* the bounds check of a definite length and the slices
read_definite(d, start, off, l) ==
    IF add_overflows(off, l) THEN AbortTlv
    ELSE IF add_exceeds(off, l, Len(d)) THEN NoTlv
    ELSE definite_tlv(d, start, off, usize_low(l))

\* raw that stops before the end-of-contents octets
indefinite_tlv_raw_without_eoc(d, start, content_start, eoc_end) ==
    [st |-> "some",
     tag_class |-> At(d, start) \div 64,
     constructed |-> (At(d, start) \div 32) % 2 # 0,
     tag_num |-> read_tag(d, start).tag_num,
     length |-> eoc_end - 2 - content_start,
     value |-> Slice(d, content_start, eoc_end - 2),
     value_start |-> content_start,
     raw |-> Slice(d, start, eoc_end - 2),
     raw_start |-> start,
     next |-> eoc_end]

\* the Tlv of an indefinite-length triple
indefinite_tlv(d, start, content_start, eoc_end) ==
    [st |-> "some",
     tag_class |-> At(d, start) \div 64,
     constructed |-> (At(d, start) \div 32) % 2 # 0,
     tag_num |-> read_tag(d, start).tag_num,
     length |-> eoc_end - 2 - content_start,
     value |-> Slice(d, content_start, eoc_end - 2),
     value_start |-> content_start,
     raw |-> Slice(d, start, eoc_end),
     raw_start |-> start,
     next |-> eoc_end]

read_indefinite(d, start, content_start) ==
    LET e == find_eoc(d, content_start)
    IN  IF e.st = "abort" THEN AbortTlv
        ELSE IF e.st = "none" THEN NoTlv
        ELSE IF e.off < 2 \/ e.off - 2 < content_start THEN NoTlv
        ELSE indefinite_tlv(d, start, content_start, e.off)

parse_tlv(d, start) ==
    IF start >= Len(d) THEN NoTlv
    ELSE LET constructed == (At(d, start) \div 32) % 2 # 0
             t == read_tag(d, start)
         IN  IF t.off >= Len(d) THEN NoTlv
             ELSE LET length_byte == At(d, t.off)
                      o == t.off + 1
                      num_octets == length_byte % 128
                  IN  IF length_byte = 128
                      THEN IF ~constructed THEN NoTlv
                           ELSE read_indefinite(d, start, o)
                      ELSE IF length_byte >= 128
                      THEN IF num_octets = 0 \/ o + num_octets > Len(d)
                           THEN NoTlv
                           ELSE read_definite(d, start, o + num_octets,
                                              long_len(d, o, num_octets, usize_zero))
                      ELSE read_definite(d, start, o, usize_of_byte(length_byte))

----------------------------------------------------------------------------
(* The compiled schema.  A tag key is <<class, number>>, the number a u32.  *)
(* A table is a function from its keys; names of types are strings, names  *)
(* of fields and alternatives are the characters write_json_key writes.    *)

TagKey(cls, n) == <<cls, U32(n)>>

SYNTH_CHOICE_BASE == <<65535, 65280>>

is_synth_choice_tag(t) == t[1] = 65535 /\ t[2] >= 65280

\* SYNTH_CHOICE_BASE + idx, for idx < 256
synth_key(idx) == <<3, <<65535, 65280 + idx>>>>

FieldSpec(name, field_type, optional, is_sequence_of, is_set_of) ==
    [name |-> name, field_type |-> field_type, optional |-> optional,
     is_sequence_of |-> is_sequence_of, is_set_of |-> is_set_of]

EmptyMap == [k \in {} |-> 0]

EmptySchema ==
    [choices |-> EmptyMap, sequences |-> EmptyMap, sets |-> EmptyMap,
     seq_of_types |-> EmptyMap, set_of_types |-> EmptyMap,
     primitives |-> EmptyMap, aliases |-> EmptyMap, type_outer_tag |-> EmptyMap]

AliasBound == 32

\* the loop of resolve_alias with n iterations left
RECURSIVE resolve_alias_from(_, _, _)
resolve_alias_from(aliases, t, n) ==
    IF n = 0 THEN t
    ELSE IF t \in DOMAIN aliases
         THEN resolve_alias_from(aliases, aliases[t], n - 1)
         ELSE t

\* resolve_alias, universal_tag_for_type and tag_for_type on the schema sch:
\* parse calls them on the schema it is building
resolve_alias_in(sch, t) == resolve_alias_from(sch.aliases, t, AliasBound)

\* on the schema of the decoder
resolve_alias(t) == resolve_alias_in(schema, t)

universal_tag_for_type_in(sch, t) ==
    LET rt == resolve_alias_in(sch, t)
        kind == IF rt \in DOMAIN sch.primitives THEN sch.primitives[rt] ELSE rt
    IN  IF rt \in DOMAIN sch.sequences \/ rt \in DOMAIN sch.seq_of_types
        THEN <<TagKey(0, 16)>>
        ELSE IF rt \in DOMAIN sch.sets \/ rt \in DOMAIN sch.set_of_types
        THEN <<TagKey(0, 17)>>
        ELSE IF rt \in DOMAIN sch.choices THEN <<>>
        ELSE CASE kind = "INTEGER" -> <<TagKey(0, 2)>>
               [] kind = "OCTET STRING" -> <<TagKey(0, 4)>>
               [] kind = "BIT STRING" -> <<TagKey(0, 3)>>
               [] kind = "BOOLEAN" -> <<TagKey(0, 1)>>
               [] kind = "NULL" -> <<TagKey(0, 5)>>
               [] kind = "ENUMERATED" -> <<TagKey(0, 10)>>
               [] kind = "IA5String" -> <<TagKey(0, 22)>>
               [] kind = "UTF8String" -> <<TagKey(0, 12)>>
               [] kind = "OBJECT IDENTIFIER" -> <<TagKey(0, 6)>>
               [] kind = "TBCD-STRING" -> <<TagKey(0, 4)>>
               [] kind = "GraphicString" -> <<TagKey(0, 25)>>
               [] kind = "VisibleString" -> <<TagKey(0, 26)>>
               [] OTHER -> <<>>

universal_tag_for_type(t) == universal_tag_for_type_in(schema, t)

tag_for_type_in(sch, t) ==
    LET rt == resolve_alias_in(sch, t)
    IN  IF rt \in DOMAIN sch.type_outer_tag THEN <<sch.type_outer_tag[rt]>>
        ELSE universal_tag_for_type_in(sch, rt)

tag_for_type(t) == tag_for_type_in(schema, t)

----------------------------------------------------------------------------
(* The JSON writer.  Text is a sequence of one-character strings.          *)

HEX == <<"0", "1", "2", "3", "4", "5", "6", "7", "8", "9", "a", "b", "c", "d", "e", "f">>

hex_encode_into(bytes) ==
    [j \in 1..(2 * Len(bytes)) |->
        IF j % 2 = 1
        THEN HEX[(bytes[(j + 1) \div 2] \div 16) + 1]
        ELSE HEX[(bytes[j \div 2] % 16) + 1]]

write_hex_json(bytes) == <<"\"">> \o hex_encode_into(bytes) \o <<"\"">>

\* the escape of one character of a key
json_escape(c) ==
    CASE c = "\"" -> <<"\\", "\"">>
      [] c = "\\" -> <<"\\", "\\">>
      [] c = "\n" -> <<"\\", "n">>
      [] c = "\r" -> <<"\\", "r">>
      [] c = "\t" -> <<"\\", "t">>
      [] OTHER -> <<c>>

RECURSIVE json_escape_all(_)
json_escape_all(key) ==
    IF key = <<>> THEN <<>> ELSE json_escape(Head(key)) \o json_escape_all(Tail(key))

write_json_key(key) == <<"\"">> \o json_escape_all(key) \o <<"\"">>

DIGITS == <<"0", "1", "2", "3", "4", "5", "6", "7", "8", "9">>

\* a u32 divided by ten: <<quotient, remainder>>
u32_divmod10(t) ==
    LET r == (t[1] % 10) * 65536 + t[2]
    IN  <<<<t[1] \div 10, r \div 10>>, r % 10>>

\* itoa::Buffer::format: the decimal digits of a u32
RECURSIVE itoa(_)
itoa(t) ==
    Bind(u32_divmod10(t), LAMBDA qr :
        IF qr[1] = <<0, 0>>
        THEN <<DIGITS[qr[2] + 1]>>
        ELSE itoa(qr[1]) \o <<DIGITS[qr[2] + 1]>>)

----------------------------------------------------------------------------
(* The decoder dispatch.  A write_* operator gives the text the call       *)
(* writes and whether it returns: ok = FALSE stands for a panic in a       *)
(* parse_tlv call below it, after which nothing more is written.           *)

Written(text) == [out |-> text, ok |-> TRUE]

Aborted(text) == [out |-> text, ok |-> FALSE]

\* w followed by the text written after it, if w returned
Then(w, text) == Bind(w, LAMBDA r : IF r.ok THEN Written(r.out \o text) ELSE r)

\* text followed by the writes of w
After(text, w) == Bind(w, LAMBDA r : [out |-> text \o r.out, ok |-> r.ok])

\* the key with class and number in each other's place
unknown_tag_key_swapped(t) ==
    <<"\"", "u", "n", "k", "n", "o", "w", "n", "_", "t", "a", "g", "_">>
        \o itoa(t.tag_num) \o <<"_">> \o itoa(U32(t.tag_class)) \o <<"\"", ":">>

unknown_tag_key(t) ==
    <<"\"", "u", "n", "k", "n", "o", "w", "n", "_", "t", "a", "g", "_">>
        \o itoa(U32(t.tag_class)) \o <<"_">> \o itoa(t.tag_num) \o <<"\"", ":">>

\* a total order on u32 numbers and on tag keys, to enumerate a table's keys
u32_less(a, b) == a[1] < b[1] \/ (a[1] = b[1] /\ a[2] < b[2])

key_less(a, b) == a[1] < b[1] \/ (a[1] = b[1] /\ u32_less(a[2], b[2]))

RECURSIVE sorted_keys(_)
sorted_keys(S) ==
    IF S = {} THEN <<>>
    ELSE Bind(CHOOSE k \in S : \A j \in S : j = k \/ key_less(k, j),
              LAMBDA m : <<m>> \o Bind(S \ {m}, LAMBDA rest : sorted_keys(rest)))

\* the keys of a hash map in the order this run's hasher iterates them
hash_keys(m) ==
    Bind(sorted_keys(DOMAIN m), LAMBDA ks :
        Bind(SelectSeq(hash_order, LAMBDA i : i <= Len(ks)), LAMBDA ord :
            [i \in 1..Len(ks) |-> ks[ord[i]]]))

\* sort_unstable on the collected synthetic tag numbers
RECURSIVE sort_unstable(_)
sort_unstable(ts) ==
    Bind(ts, LAMBDA s :
        IF s = <<>> THEN <<>>
        ELSE Bind(CHOOSE i \in 1..Len(s) : \A j \in 1..Len(s) : ~u32_less(s[j], s[i]),
                  LAMBDA i : <<s[i]>>
                      \o sort_unstable(SubSeq(s, 1, i - 1) \o SubSeq(s, i + 1, Len(s)))))

\* alts.keys().filter(synthetic).map(tag).collect(): in hash order
collect_synth_keys(alts) ==
    Bind(SelectSeq(hash_keys(alts), LAMBDA k : k[1] = 3 /\ is_synth_choice_tag(k[2])),
         LAMBDA ks : [i \in 1..Len(ks) |-> ks[i][2]])

\* the synthetic keys as collected, the sort left out
synth_keys_unsorted(alts) == collect_synth_keys(alts)

synth_keys(alts) == sort_unstable(collect_synth_keys(alts))

choice_alt_matches_tlv(alt_type, t) ==
    LET rt == resolve_alias(alt_type)
        u == universal_tag_for_type(rt)
    IN  IF rt \in DOMAIN schema.type_outer_tag
        THEN <<t.tag_class, t.tag_num>> = schema.type_outer_tag[rt]
        ELSE IF rt \in DOMAIN schema.choices
                /\ <<t.tag_class, t.tag_num>> \in DOMAIN schema.choices[rt]
        THEN TRUE
        ELSE IF rt \in DOMAIN schema.sequences \/ rt \in DOMAIN schema.seq_of_types
        THEN t.tag_class = 0 /\ t.constructed /\ t.tag_num = U32(16)
        ELSE IF rt \in DOMAIN schema.sets \/ rt \in DOMAIN schema.set_of_types
        THEN t.tag_class = 0 /\ t.constructed /\ t.tag_num = U32(17)
        ELSE u # <<>> /\ <<t.tag_class, t.tag_num>> = u[1]

\* the candidates of write_choice: the outer TLV, the first TLV inside a
\* constructed outer, the first TLV inside a universal primitive tag-4 outer
\* with non-empty content not starting with 00.  A sequence of results of
\* parse_tlv, "none" where the source has None.
choice_candidates(outer) ==
    <<outer,
      IF outer.constructed THEN parse_tlv(outer.value, 0) ELSE NoTlv,
      IF outer.tag_class = 0 /\ ~outer.constructed /\ outer.tag_num = U32(4)
         /\ outer.value # <<>> /\ outer.value[1] # 0
      THEN parse_tlv(outer.value, 0) ELSE NoTlv>>

RECURSIVE write_type(_, _)
RECURSIVE write_sequence_from(_, _, _, _, _)
RECURSIVE write_sequence_of_from(_, _, _, _, _)
RECURSIVE write_choice(_, _)

write_sequence(d, field_spec) == write_sequence_from(d, field_spec, 0, TRUE, <<"{">>)

write_sequence_of(d, element_type) ==
    write_sequence_of_from(d, element_type, 0, TRUE, <<"[">>)

write_type(d, t) ==
    LET rt == resolve_alias(t)
    IN  IF rt \in DOMAIN schema.seq_of_types
        THEN write_sequence_of(d, schema.seq_of_types[rt])
        ELSE IF rt \in DOMAIN schema.set_of_types
        THEN write_sequence_of(d, schema.set_of_types[rt])
        ELSE IF rt \in DOMAIN schema.choices
        THEN write_choice(d, schema.choices[rt])
        ELSE IF rt \in DOMAIN schema.sequences
        THEN write_sequence(d, schema.sequences[rt])
        ELSE IF rt \in DOMAIN schema.sets
        THEN write_sequence(d, schema.sets[rt])
        ELSE Written(write_hex_json(d))

\* a member whose primitive content is written with its tag and length octets
write_member_raw(t, field_spec) ==
    LET key == <<t.tag_class, t.tag_num>>
    IN  IF key \in DOMAIN field_spec
        THEN LET field == field_spec[key]
             IN  After(write_json_key(field.name) \o <<":">>,
                       IF field.is_sequence_of \/ field.is_set_of
                       THEN write_sequence_of(t.value, field.field_type)
                       ELSE IF resolve_alias(field.field_type) \in DOMAIN schema.choices
                       THEN write_type(t.raw, field.field_type)
                       ELSE IF t.constructed
                       THEN write_type(t.value, field.field_type)
                       ELSE Written(write_hex_json(t.raw)))
        ELSE Written(unknown_tag_key(t) \o write_hex_json(t.value))

\* the member written for one TLV of a SEQUENCE/SET body
write_member(t, field_spec) ==
    LET key == <<t.tag_class, t.tag_num>>
    IN  IF key \in DOMAIN field_spec
        THEN LET field == field_spec[key]
             IN  After(write_json_key(field.name) \o <<":">>,
                       IF field.is_sequence_of \/ field.is_set_of
                       THEN write_sequence_of(t.value, field.field_type)
                       ELSE IF resolve_alias(field.field_type) \in DOMAIN schema.choices
                       THEN write_type(t.raw, field.field_type)
                       ELSE IF t.constructed
                       THEN write_type(t.value, field.field_type)
                       ELSE Written(write_hex_json(t.value)))
        ELSE Written(unknown_tag_key(t) \o write_hex_json(t.value))

\* a loop that leaves after the first TLV of the body
write_sequence_from_first_only(d, field_spec, off, first, text) ==
    IF ~(off < Len(d)) \/ ~first THEN Written(text \o <<"}">>)
    ELSE Bind(parse_tlv(d, off), LAMBDA t :
             IF t.st = "abort" THEN Aborted(text)
             ELSE IF t.st = "none" \/ t.next <= off THEN Written(text \o <<"}">>)
             ELSE Bind(After(text, write_member(t, field_spec)), LAMBDA m :
                      IF m.ok
                      THEN write_sequence_from(d, field_spec, t.next, FALSE, m.out)
                      ELSE m))

\* the loop of write_sequence from off on, text being what is written so far
write_sequence_from(d, field_spec, off, first, text) ==
    IF ~(off < Len(d)) THEN Written(text \o <<"}">>)
    ELSE Bind(parse_tlv(d, off), LAMBDA t :
             IF t.st = "abort" THEN Aborted(text)
             ELSE IF t.st = "none" \/ t.next <= off THEN Written(text \o <<"}">>)
             ELSE Bind(After(text \o (IF first THEN <<>> ELSE <<",">>),
                             write_member(t, field_spec)), LAMBDA m :
                      IF m.ok
                      THEN write_sequence_from(d, field_spec, t.next, FALSE, m.out)
                      ELSE m))

\* the element written for one TLV of a SEQUENCE OF/SET OF body
write_element(t, element_type) ==
    IF resolve_alias(element_type) \in DOMAIN schema.choices
    THEN write_type(t.raw, element_type)
    ELSE IF t.constructed
    THEN write_type(t.value, element_type)
    ELSE Written(write_hex_json(t.value))

write_sequence_of_from(d, element_type, off, arr_first, text) ==
    IF ~(off < Len(d)) THEN Written(text \o <<"]">>)
    ELSE Bind(parse_tlv(d, off), LAMBDA t :
             IF t.st = "abort" THEN Aborted(text)
             ELSE IF t.st = "none" \/ t.next <= off THEN Written(text \o <<"]">>)
             ELSE Bind(After(text \o (IF arr_first THEN <<>> ELSE <<",">>),
                             write_element(t, element_type)), LAMBDA m :
                      IF m.ok
                      THEN write_sequence_of_from(d, element_type, t.next, FALSE, m.out)
                      ELSE m))

\* the candidates that are Some, in order
some_candidates(cands) == SelectSeq(cands, LAMBDA c : c.st = "some")

\* a direct match that lets the last matching candidate win
direct_match_last(cands, alts) ==
    LET hits == {i \in 1..Len(cands) : <<cands[i].tag_class, cands[i].tag_num>> \in DOMAIN alts}
    IN  IF hits = {} THEN 0 ELSE CHOOSE i \in hits : \A j \in hits : i >= j

\* step 1: the first candidate whose tag key is an alternative key (0: none)
direct_match(cands, alts) ==
    LET hits == {i \in 1..Len(cands) : <<cands[i].tag_class, cands[i].tag_num>> \in DOMAIN alts}
    IN  IF hits = {} THEN 0 ELSE CHOOSE i \in hits : \A j \in hits : i <= j

\* a probe that goes through the candidates first and the keys second
synth_match_cand_major(ks, cands, alts) ==
    LET hits == {i \in 1..Len(cands) :
                    \E n \in 1..Len(ks) :
                        choice_alt_matches_tlv(alts[<<3, ks[n]>>][2], cands[i])}
        c == CHOOSE i \in hits : \A j \in hits : i <= j
        ns == {n \in 1..Len(ks) : choice_alt_matches_tlv(alts[<<3, ks[n]>>][2], cands[c])}
    IN  IF hits = {} THEN [key |-> U32(0), cand |-> 0]
        ELSE [key |-> ks[CHOOSE n \in ns : \A m \in ns : n <= m], cand |-> c]

\* step 2: the first pair (synthetic key, candidate), keys in the order ks,
\* for which choice_alt_matches_tlv holds (cand = 0: none)
RECURSIVE synth_match(_, _, _)
synth_match(ks, cands, alts) ==
    Bind(ks, LAMBDA keys :
        IF keys = <<>> THEN [key |-> U32(0), cand |-> 0]
        ELSE Bind({i \in 1..Len(cands) :
                      choice_alt_matches_tlv(alts[<<3, Head(keys)>>][2], cands[i])},
                  LAMBDA hits :
                      IF hits # {}
                      THEN [key |-> Head(keys),
                            cand |-> CHOOSE i \in hits : \A j \in hits : i <= j]
                      ELSE synth_match(Tail(keys), cands, alts)))

\* raw for every alternative whose type is a CHOICE
synth_bytes_raw_for_choice(ftype, cand) ==
    IF resolve_alias(ftype) \in DOMAIN schema.choices THEN cand.raw ELSE cand.value

\* the bytes handed on for a synthetic alternative
synth_bytes(ftype, cand) ==
    LET f_rt == resolve_alias(ftype)
    IN  IF f_rt \in DOMAIN schema.type_outer_tag THEN cand.value
        ELSE IF f_rt \in DOMAIN schema.choices THEN cand.raw
        ELSE cand.value

write_choice(d, alts) ==
    Bind(parse_tlv(d, 0), LAMBDA outer :
        IF outer.st = "abort" THEN Aborted(<<>>)
        ELSE IF outer.st = "none" THEN Written(<<"n", "u", "l", "l">>)
        ELSE Bind(choice_candidates(outer), LAMBDA all :
             Bind(some_candidates(all), LAMBDA cands :
             Bind(direct_match(cands, alts), LAMBDA dm :
             Bind(IF dm # 0 THEN [key |-> U32(0), cand |-> 0]
                  ELSE synth_match(synth_keys(alts), cands, alts), LAMBDA sm :
                 IF \E i \in 1..Len(all) : all[i].st = "abort" THEN Aborted(<<>>)
                 ELSE IF dm # 0
                 THEN LET alt == alts[<<cands[dm].tag_class, cands[dm].tag_num>>]
                      IN  Then(After(<<"{">> \o write_json_key(alt[1]) \o <<":">>,
                                     write_type(cands[dm].value, alt[2])),
                               <<"}">>)
                 ELSE IF sm.cand # 0
                 THEN LET alt == alts[<<3, sm.key>>]
                      IN  Then(After(<<"{">> \o write_json_key(alt[1]) \o <<":">>,
                                     write_type(synth_bytes(alt[2], cands[sm.cand]), alt[2])),
                               <<"}">>)
                 ELSE Written(<<"{">>
                              \o write_json_key(<<"u", "n", "k", "n", "o", "w", "n", "_",
                                                  "a", "l", "t", "e", "r", "n", "a", "t", "i", "v", "e">>)
                              \o <<":">> \o write_hex_json(outer.raw) \o <<"}">>))))))

----------------------------------------------------------------------------
(* The root scan: tlv_matches_root, write_root_tlv_with_type and the steps *)
(* of find_next_root_tlv and process_file.                                 *)

\* a check that lets every name through
knows_type_any(t) == TRUE

knows_type(t) ==
    LET rt == resolve_alias(t)
    IN  \/ rt \in DOMAIN schema.choices
        \/ rt \in DOMAIN schema.sequences
        \/ rt \in DOMAIN schema.sets
        \/ rt \in DOMAIN schema.seq_of_types
        \/ rt \in DOMAIN schema.set_of_types
        \/ rt \in DOMAIN schema.primitives

\* the loop over alts of tlv_matches_root, keys in the order ks
RECURSIVE synth_alt_matches(_, _, _)
synth_alt_matches(ks, alts, t) ==
    IF ks = <<>> THEN FALSE
    ELSE IF Head(ks)[1] = 3 /\ is_synth_choice_tag(Head(ks)[2])
            /\ choice_alt_matches_tlv(alts[Head(ks)][2], t)
    THEN TRUE
    ELSE synth_alt_matches(Tail(ks), alts, t)

tlv_matches_root(t, root_type) ==
    LET rt == resolve_alias(root_type)
    IN  IF rt \in DOMAIN schema.type_outer_tag
        THEN <<t.tag_class, t.tag_num>> = schema.type_outer_tag[rt]
        ELSE IF rt \in DOMAIN schema.choices
        THEN \/ <<t.tag_class, t.tag_num>> \in DOMAIN schema.choices[rt]
             \/ synth_alt_matches(hash_keys(schema.choices[rt]), schema.choices[rt], t)
        ELSE IF rt \in DOMAIN schema.sequences \/ rt \in DOMAIN schema.seq_of_types
        THEN t.tag_class = 0 /\ t.constructed /\ t.tag_num = U32(16)
        ELSE IF rt \in DOMAIN schema.sets \/ rt \in DOMAIN schema.set_of_types
        THEN t.tag_class = 0 /\ t.constructed /\ t.tag_num = U32(17)
        ELSE rt \in DOMAIN schema.primitives

\* st: "ok", "abort" (a panic below) or "err" (the Err of an unknown root type)
write_root_tlv_with_type(t, root_type) ==
    LET rt == resolve_alias(root_type)
    IN  IF ~knows_type(rt) THEN [out |-> <<>>, st |-> "err"]
        ELSE Bind(IF rt \in DOMAIN schema.type_outer_tag THEN write_type(t.value, root_type)
                  ELSE IF rt \in DOMAIN schema.choices THEN write_type(t.raw, root_type)
                  ELSE write_type(t.value, root_type),
                  LAMBDA w : [out |-> w.out, st |-> IF w.ok THEN "ok" ELSE "abort"])

\* a retry that stays on the same byte
retry_from_same(at) == at

\* start += 1
retry_from(at) == at + 1

\* a cursor moved to the content of the record written, not past the record
next_offset_inside(t) == t.value_start

\* offset = new_off
next_offset(t) == t.next

\* no earlier run
NoRun == [ran |-> FALSE, hash_order |-> <<>>, out |-> <<>>, pc |-> ""]

----------------------------------------------------------------------------
(* The schema compiler, Asn1Schema::parse.  A schema text is a sequence of  *)
(* tokens: the words [\w-]+ of the text, its punctuation, and "\n" for the *)
(* end of a line.  The texts have no comments, blanks separate the tokens  *)
(* of a line, declarations start in the first column and the lines between *)
(* braces are indented.  A regular expression of the source is modelled by *)
(* what it matches on the tokens: \s* and \s+ pass over line ends, ^ and $ *)
(* stand at line ends, a word is matched whole (no word of the texts starts*)
(* with a keyword it is not), and the words SEQUENCE OF T of a field stand *)
(* on one line.                                                             *)

NL == "\n"

\* the characters of the words of the schema texts
Spelling ==
    ("0" :> <<"0">>)
    @@ ("1" :> <<"1">>)
    @@ ("2" :> <<"2">>)
    @@ ("3" :> <<"3">>)
    @@ ("4" :> <<"4">>)
    @@ ("4294967040" :> <<"4", "2", "9", "4", "9", "6", "7", "0", "4", "0">>)
    @@ ("4294967296" :> <<"4", "2", "9", "4", "9", "6", "7", "2", "9", "6">>)
    @@ ("5" :> <<"5">>)
    @@ ("9" :> <<"9">>)
    @@ ("A0" :> <<"A", "0">>)
    @@ ("A1" :> <<"A", "1">>)
    @@ ("A10" :> <<"A", "1", "0">>)
    @@ ("A11" :> <<"A", "1", "1">>)
    @@ ("A12" :> <<"A", "1", "2">>)
    @@ ("A13" :> <<"A", "1", "3">>)
    @@ ("A14" :> <<"A", "1", "4">>)
    @@ ("A15" :> <<"A", "1", "5">>)
    @@ ("A16" :> <<"A", "1", "6">>)
    @@ ("A17" :> <<"A", "1", "7">>)
    @@ ("A18" :> <<"A", "1", "8">>)
    @@ ("A19" :> <<"A", "1", "9">>)
    @@ ("A2" :> <<"A", "2">>)
    @@ ("A20" :> <<"A", "2", "0">>)
    @@ ("A21" :> <<"A", "2", "1">>)
    @@ ("A22" :> <<"A", "2", "2">>)
    @@ ("A23" :> <<"A", "2", "3">>)
    @@ ("A24" :> <<"A", "2", "4">>)
    @@ ("A25" :> <<"A", "2", "5">>)
    @@ ("A26" :> <<"A", "2", "6">>)
    @@ ("A27" :> <<"A", "2", "7">>)
    @@ ("A28" :> <<"A", "2", "8">>)
    @@ ("A29" :> <<"A", "2", "9">>)
    @@ ("A3" :> <<"A", "3">>)
    @@ ("A30" :> <<"A", "3", "0">>)
    @@ ("A31" :> <<"A", "3", "1">>)
    @@ ("A32" :> <<"A", "3", "2">>)
    @@ ("A33" :> <<"A", "3", "3">>)
    @@ ("A34" :> <<"A", "3", "4">>)
    @@ ("A35" :> <<"A", "3", "5">>)
    @@ ("A36" :> <<"A", "3", "6">>)
    @@ ("A37" :> <<"A", "3", "7">>)
    @@ ("A38" :> <<"A", "3", "8">>)
    @@ ("A39" :> <<"A", "3", "9">>)
    @@ ("A4" :> <<"A", "4">>)
    @@ ("A5" :> <<"A", "5">>)
    @@ ("A6" :> <<"A", "6">>)
    @@ ("A7" :> <<"A", "7">>)
    @@ ("A8" :> <<"A", "8">>)
    @@ ("A9" :> <<"A", "9">>)
    @@ ("APPLICATION" :> <<"A", "P", "P", "L", "I", "C", "A", "T", "I", "O", "N">>)
    @@ ("B" :> <<"B">>)
    @@ ("BEGIN" :> <<"B", "E", "G", "I", "N">>)
    @@ ("BIT" :> <<"B", "I", "T">>)
    @@ ("BOOLEAN" :> <<"B", "O", "O", "L", "E", "A", "N">>)
    @@ ("C" :> <<"C">>)
    @@ ("CHOICE" :> <<"C", "H", "O", "I", "C", "E">>)
    @@ ("COMPONENTS" :> <<"C", "O", "M", "P", "O", "N", "E", "N", "T", "S">>)
    @@ ("CONTEXT" :> <<"C", "O", "N", "T", "E", "X", "T">>)
    @@ ("CONTEXT-SPECIFIC" :> <<"C", "O", "N", "T", "E", "X", "T", "-", "S", "P", "E", "C", "I", "F", "I", "C">>)
    @@ ("D" :> <<"D">>)
    @@ ("DEFAULT" :> <<"D", "E", "F", "A", "U", "L", "T">>)
    @@ ("END" :> <<"E", "N", "D">>)
    @@ ("ENUMERATED" :> <<"E", "N", "U", "M", "E", "R", "A", "T", "E", "D">>)
    @@ ("EXPLICIT" :> <<"E", "X", "P", "L", "I", "C", "I", "T">>)
    @@ ("GraphicString" :> <<"G", "r", "a", "p", "h", "i", "c", "S", "t", "r", "i", "n", "g">>)
    @@ ("IA5STRING" :> <<"I", "A", "5", "S", "T", "R", "I", "N", "G">>)
    @@ ("IA5String" :> <<"I", "A", "5", "S", "t", "r", "i", "n", "g">>)
    @@ ("IDENTIFIER" :> <<"I", "D", "E", "N", "T", "I", "F", "I", "E", "R">>)
    @@ ("IMPLICIT" :> <<"I", "M", "P", "L", "I", "C", "I", "T">>)
    @@ ("INTEGER" :> <<"I", "N", "T", "E", "G", "E", "R">>)
    @@ ("L" :> <<"L">>)
    @@ ("M" :> <<"M">>)
    @@ ("NULL" :> <<"N", "U", "L", "L">>)
    @@ ("O" :> <<"O">>)
    @@ ("OBJECT" :> <<"O", "B", "J", "E", "C", "T">>)
    @@ ("OCTET" :> <<"O", "C", "T", "E", "T">>)
    @@ ("OF" :> <<"O", "F">>)
    @@ ("OPTIONAL" :> <<"O", "P", "T", "I", "O", "N", "A", "L">>)
    @@ ("P" :> <<"P">>)
    @@ ("PRIVATE" :> <<"P", "R", "I", "V", "A", "T", "E">>)
    @@ ("Q" :> <<"Q">>)
    @@ ("R" :> <<"R">>)
    @@ ("S" :> <<"S">>)
    @@ ("SEQUENCE" :> <<"S", "E", "Q", "U", "E", "N", "C", "E">>)
    @@ ("SET" :> <<"S", "E", "T">>)
    @@ ("STRING" :> <<"S", "T", "R", "I", "N", "G">>)
    @@ ("T" :> <<"T">>)
    @@ ("TBCD-STRING" :> <<"T", "B", "C", "D", "-", "S", "T", "R", "I", "N", "G">>)
    @@ ("TRUE" :> <<"T", "R", "U", "E">>)
    @@ ("U" :> <<"U">>)
    @@ ("UNIVERSAL" :> <<"U", "N", "I", "V", "E", "R", "S", "A", "L">>)
    @@ ("UTF8STRING" :> <<"U", "T", "F", "8", "S", "T", "R", "I", "N", "G">>)
    @@ ("UTF8String" :> <<"U", "T", "F", "8", "S", "t", "r", "i", "n", "g">>)
    @@ ("VisibleString" :> <<"V", "i", "s", "i", "b", "l", "e", "S", "t", "r", "i", "n", "g">>)
    @@ ("X" :> <<"X">>)
    @@ ("a" :> <<"a">>)
    @@ ("b" :> <<"b">>)
    @@ ("c" :> <<"c">>)
    @@ ("isPdu" :> <<"i", "s", "P", "d", "u">>)
    @@ ("k" :> <<"k">>)
    @@ ("l" :> <<"l">>)
    @@ ("q" :> <<"q">>)
    @@ ("r" :> <<"r">>)
    @@ ("s" :> <<"s">>)
    @@ ("t" :> <<"t">>)
    @@ ("u" :> <<"u">>)
    @@ ("x" :> <<"x">>)
    @@ ("y" :> <<"y">>)
    @@ ("z" :> <<"z">>)

\* the token at i, "" past the end of the text
Tok(ts, i) == IF 1 <= i /\ i <= Len(ts) THEN ts[i] ELSE ""

\* [\w-]+
IsWord(w) == w \in DOMAIN Spelling

\* \d+
IsDigits(w) ==
    IsWord(w) /\ \A i \in 1..Len(Spelling[w]) : \E k \in 1..10 : DIGITS[k] = Spelling[w][i]

\* \s*: the index of the first token from i on that is not a line end
RECURSIVE skip_ws(_, _)
skip_ws(ts, i) == IF Tok(ts, i) = NL THEN skip_ws(ts, i + 1) ELSE i

\* ^ before the token at i, for a search that starts at p: the token is the
\* first of its line and the line starts at or after p
AtLineStart(ts, i, p) == (i = 1 /\ p = 1) \/ (i > 1 /\ ts[i - 1] = NL /\ i - 1 >= p)

LOWER == <<"a", "b", "c", "d", "e", "f", "g", "h", "i", "j", "k", "l", "m",
           "n", "o", "p", "q", "r", "s", "t", "u", "v", "w", "x", "y", "z">>
UPPER == <<"A", "B", "C", "D", "E", "F", "G", "H", "I", "J", "K", "L", "M",
           "N", "O", "P", "Q", "R", "S", "T", "U", "V", "W", "X", "Y", "Z">>

to_ascii_uppercase(cs) ==
    [i \in 1..Len(cs) |->
        IF \E k \in 1..26 : LOWER[k] = cs[i]
        THEN UPPER[CHOOSE k \in 1..26 : LOWER[k] = cs[i]]
        ELSE cs[i]]

\* str::parse::<u32>: <<n>>, or <<>> for the Err of a number above u32::MAX
RECURSIVE parse_u32_from(_, _)
parse_u32_from(cs, acc) ==
    IF cs = <<>> THEN <<acc>>
    ELSE LET d == (CHOOSE k \in 1..10 : DIGITS[k] = Head(cs)) - 1
             lo == acc[2] * 10 + d
             hi == acc[1] * 10 + lo \div 65536
         IN  IF hi >= 65536 THEN <<>> ELSE parse_u32_from(Tail(cs), <<hi, lo % 65536>>)

parse_u32(w) == parse_u32_from(Spelling[w], U32(0))

\* a + b on u32
u32_add(a, b) ==
    LET lo == a[2] + b[2]
        hi == a[1] + b[1] + lo \div 65536
    IN  [value |-> <<hi % 65536, lo % 65536>>, overflow |-> hi >= 65536]

tag_class_from_word(word) ==
    IF word = <<>> THEN 2
    ELSE LET w == to_ascii_uppercase(Spelling[word[1]])
         IN  IF w = Spelling["APPLICATION"] THEN 1
             ELSE IF w = Spelling["UNIVERSAL"] THEN 0
             ELSE IF w = Spelling["PRIVATE"] THEN 3
             ELSE 2

\* HashMap::insert and HashMap::extend
insert(m, k, v) == (k :> v) @@ m

extend(tgt, src) == src @@ tgt

ClassWords == {"APPLICATION", "UNIVERSAL", "PRIVATE", "CONTEXT", "CONTEXT-SPECIFIC"}

NoMatch == [ok |-> FALSE]

\* \[\s*(?:(CLASS)\s+)?(\d+)\s*\] at i
tag_at(ts, i) ==
    Bind(skip_ws(ts, i + 1), LAMBDA a :
    Bind(Tok(ts, a) \in ClassWords /\ IsDigits(Tok(ts, skip_ws(ts, a + 1))), LAMBDA has_cls :
    Bind(IF has_cls THEN skip_ws(ts, a + 1) ELSE a, LAMBDA b :
    Bind(skip_ws(ts, b + 1), LAMBDA c :
        IF Tok(ts, i) = "[" /\ IsDigits(Tok(ts, b)) /\ Tok(ts, c) = "]"
        THEN [ok |-> TRUE, cls_word |-> IF has_cls THEN <<ts[a]>> ELSE <<>>,
              tag |-> <<ts[b]>>, end |-> c + 1]
        ELSE [ok |-> FALSE, cls_word |-> <<>>, tag |-> <<>>, end |-> i]))))

\* the index of the first of the tokens stops from i on (past the end: none)
find_tok(ts, i, stops) ==
    Bind({j \in i..Len(ts) : ts[j] \in stops}, LAMBDA hits :
        IF hits = {} THEN Len(ts) + 1 ELSE CHOOSE j \in hits : \A k \in hits : j <= k)

\* (?:IMPLICIT|EXPLICIT)? before a word: the index of that word
after_tagging(ts, b) ==
    IF Tok(ts, b) \in {"IMPLICIT", "EXPLICIT"} /\ IsWord(Tok(ts, skip_ws(ts, b + 1)))
    THEN skip_ws(ts, b + 1)
    ELSE b

\* alias_re with its word at j
alias_at(ts, j, p) ==
    Bind(skip_ws(ts, j + 1), LAMBDA e :
    Bind(skip_ws(ts, e + 1), LAMBDA m :
        IF IsWord(Tok(ts, j)) /\ AtLineStart(ts, j, p) /\ Tok(ts, e) = "::="
           /\ IsWord(Tok(ts, m)) /\ Tok(ts, m + 1) \in {NL, ""}
        THEN [ok |-> TRUE, lhs |-> ts[j], rhs |-> ts[m], end |-> m + 1]
        ELSE NoMatch))

\* the kinds type_assign_re spells with two words
TwoWordKinds ==
    ("OCTET" :> <<"STRING", "OCTET STRING">>) @@ ("BIT" :> <<"STRING", "BIT STRING">>)
        @@ ("OBJECT" :> <<"IDENTIFIER", "OBJECT IDENTIFIER">>)

\* type_assign_re with its name at j
type_assign_at(ts, j, p) ==
    Bind(skip_ws(ts, j + 1), LAMBDA e :
    IF ~(IsWord(Tok(ts, j)) /\ Tok(ts, e) = "::=") THEN NoMatch
    ELSE
    Bind(skip_ws(ts, e + 1), LAMBDA a :
    Bind(tag_at(ts, a), LAMBDA tg :
    Bind(after_tagging(ts, IF tg.ok THEN skip_ws(ts, tg.end) ELSE a), LAMBDA c :
    IF ~IsWord(Tok(ts, c)) THEN NoMatch
    ELSE
    Bind(Tok(ts, c) \in DOMAIN TwoWordKinds /\ Tok(ts, c + 1) = TwoWordKinds[ts[c]][1],
         LAMBDA two :
    Bind(IF two THEN c + 2 ELSE c + 1, LAMBDA d :
    Bind(skip_ws(ts, d), LAMBDA f :
    Bind(Tok(ts, f) = "OF" /\ IsWord(Tok(ts, skip_ws(ts, f + 1))), LAMBDA has_of :
    Bind(IF has_of THEN skip_ws(ts, f + 1) + 1 ELSE d, LAMBDA g :
    Bind(skip_ws(ts, g), LAMBDA h :
    Bind(IF Tok(ts, h) = "(" THEN find_tok(ts, h, {")"}) ELSE Len(ts) + 1, LAMBDA close :
    Bind(skip_ws(ts, IF close <= Len(ts) THEN close + 1 ELSE g), LAMBDA m :
    Bind(IF Tok(ts, m) = "{" THEN find_tok(ts, m, {"}"}) ELSE Len(ts) + 1, LAMBDA brace :
        [ok |-> TRUE, type_name |-> ts[j],
         tag_class_word |-> IF tg.ok THEN tg.cls_word ELSE <<>>,
         tag_num_opt |-> IF tg.ok THEN tg.tag ELSE <<>>,
         type_kind |-> IF two THEN TwoWordKinds[ts[c]][2] ELSE ts[c],
         of_type |-> IF has_of THEN <<ts[g - 1]>> ELSE <<>>,
         body |-> IF brace <= Len(ts) THEN SubSeq(ts, m, brace) ELSE <<>>,
         end |-> IF brace <= Len(ts) THEN brace + 1 ELSE m])))))))))))))

\* field_re with its name at j
field_at(ts, j, p) ==
    IF ~(IsWord(Tok(ts, j)) /\ AtLineStart(ts, j, p)) THEN NoMatch
    ELSE
    Bind(skip_ws(ts, j + 1), LAMBDA a :
    Bind(tag_at(ts, a), LAMBDA tg :
    Bind(after_tagging(ts, IF tg.ok THEN skip_ws(ts, tg.end) ELSE a), LAMBDA c :
    IF ~IsWord(Tok(ts, c)) THEN NoMatch
    ELSE
    Bind(Tok(ts, c) \in {"SET", "SEQUENCE"} /\ Tok(ts, c + 1) = "OF" /\ IsWord(Tok(ts, c + 2)),
         LAMBDA of :
    Bind(IF of THEN c + 3 ELSE c + 1, LAMBDA d :
    Bind(skip_ws(ts, d), LAMBDA f :
    Bind(IF Tok(ts, f) = "DEFAULT" /\ Tok(ts, f + 1) \notin {",", NL, ""}
         THEN find_tok(ts, f + 1, {",", NL}) ELSE d, LAMBDA g :
    Bind(skip_ws(ts, g), LAMBDA h :
        [ok |-> TRUE, field_name |-> ts[j],
         cls_word |-> IF tg.ok THEN tg.cls_word ELSE <<>>,
         tag_opt |-> IF tg.ok THEN tg.tag ELSE <<>>,
         element_type |-> IF of THEN ts[c + 2] ELSE ts[c],
         is_sequence_of |-> of /\ ts[c] = "SEQUENCE",
         is_set_of |-> of /\ ts[c] = "SET",
         optional |-> Tok(ts, h) = "OPTIONAL",
         end |-> IF Tok(ts, h) = "OPTIONAL" THEN h + 1 ELSE h]))))))))

\* components_of_re with COMPONENTS at j
components_of_at(ts, j, p) ==
    Bind(skip_ws(ts, j + 1), LAMBDA a :
    Bind(skip_ws(ts, a + 1), LAMBDA b :
        IF Tok(ts, j) = "COMPONENTS" /\ AtLineStart(ts, j, p) /\ Tok(ts, a) = "OF"
           /\ IsWord(Tok(ts, b))
        THEN [ok |-> TRUE, source_type |-> ts[b], end |-> b + 1]
        ELSE NoMatch))

\* choice_tagged_re with its name at j
choice_tagged_at(ts, j, p) ==
    Bind(tag_at(ts, skip_ws(ts, j + 1)), LAMBDA tg :
    Bind(skip_ws(ts, tg.end), LAMBDA b :
        IF IsWord(Tok(ts, j)) /\ tg.ok /\ IsWord(Tok(ts, b))
        THEN [ok |-> TRUE, field_name |-> ts[j], cls_word |-> tg.cls_word, tag |-> tg.tag,
              field_type |-> ts[b], end |-> b + 1]
        ELSE NoMatch))

\* choice_untagged_re with its first word at j
choice_untagged_at(ts, j, p) ==
    LET b == skip_ws(ts, j + 1)
    IN  IF IsWord(Tok(ts, j)) /\ IsWord(Tok(ts, b))
        THEN [ok |-> TRUE, field_name |-> ts[j], field_type |-> ts[b], end |-> b + 1]
        ELSE NoMatch

\* a pattern of parse with its first word at j, for a search started at p
match_at(re, ts, j, p) ==
    CASE re = "alias_re" -> alias_at(ts, j, p)
      [] re = "type_assign_re" -> type_assign_at(ts, j, p)
      [] re = "field_re" -> field_at(ts, j, p)
      [] re = "components_of_re" -> components_of_at(ts, j, p)
      [] re = "choice_tagged_re" -> choice_tagged_at(ts, j, p)
      [] re = "choice_untagged_re" -> choice_untagged_at(ts, j, p)

\* the leftmost match of a pattern for a search started at p; a search with
\* no match ends past the text
first_match(re, ts, p) ==
    Bind({j \in p..(p + 15) : j <= Len(ts) /\ match_at(re, ts, j, p).ok}, LAMBDA near :
        IF near # {}
        THEN match_at(re, ts, CHOOSE j \in near : \A k \in near : j <= k, p)
        ELSE Bind({j \in (p + 16)..Len(ts) : match_at(re, ts, j, p).ok}, LAMBDA far :
                 IF far # {}
                 THEN match_at(re, ts, CHOOSE j \in far : \A k \in far : j <= k, p)
                 ELSE [ok |-> FALSE, end |-> Len(ts) + 1]))

\* the next k searches from p on, each started where the match before ended
RECURSIVE matches_from(_, _, _, _)
matches_from(re, ts, p, k) ==
    IF k = 1 THEN <<first_match(re, ts, p)>>
    ELSE Bind(matches_from(re, ts, p, k \div 2), LAMBDA ms :
             ms \o matches_from(re, ts, ms[Len(ms)].end, k - k \div 2))

\* captures_iter: the matches of a pattern, leftmost first
captures_iter(re, ts) ==
    SelectSeq(matches_from(re, ts, 1, Len(ts) + 1), LAMBDA m : m.ok)

AliasKeywords ==
    {"CHOICE", "SEQUENCE", "SET", "ENUMERATED", "INTEGER", "OCTET", "BIT", "IA5STRING",
     "UTF8STRING", "BOOLEAN", "NULL", "OBJECT", "IDENTIFIER", "BEGIN", "END"}

\* 1. Parse Aliases: the body of the loop, for the capture cap
alias_step(aliases, cap) ==
    LET rhs_upper == to_ascii_uppercase(Spelling[cap.rhs])
        is_keyword == \E k \in AliasKeywords : rhs_upper = Spelling[k]
    IN  IF ~is_keyword /\ cap.lhs # cap.rhs
        THEN insert(aliases, cap.lhs, cap.rhs)
        ELSE aliases

\* 2. Parse Type Definitions: the body of the loop, without defs.push
type_def_step(sch, caps) ==
    LET num == IF caps.tag_num_opt = <<>> THEN <<>> ELSE parse_u32(caps.tag_num_opt[1])
        tagged == IF num = <<>> THEN sch
                  ELSE [sch EXCEPT !.type_outer_tag =
                           insert(@, caps.type_name,
                                  <<tag_class_from_word(caps.tag_class_word), num[1]>>)]
    IN  IF caps.type_kind \in {"CHOICE", "SEQUENCE", "SET"} THEN tagged
        ELSE [tagged EXCEPT !.primitives = insert(@, caps.type_name, caps.type_kind)]

\* the body of the loop over field_re's captures; s is [st, schema, fields],
\* st "ok", or "err" once the ? of the tag number's parse has returned
field_step(s, c) ==
    LET tag == IF c.tag_opt = <<>> THEN <<>> ELSE parse_u32(c.tag_opt[1])
        key == IF c.tag_opt # <<>>
               THEN <<(<<tag_class_from_word(c.cls_word), tag[1]>>)>>
               ELSE tag_for_type_in(s.schema, c.element_type)
    IN  IF s.st # "ok" THEN s
        ELSE IF c.tag_opt # <<>> /\ tag = <<>> THEN [s EXCEPT !.st = "err"]
        ELSE IF key = <<>> THEN s
        ELSE [s EXCEPT !.fields =
                 insert(@, key[1],
                        FieldSpec(Spelling[c.field_name], c.element_type, c.optional,
                                  c.is_sequence_of, c.is_set_of))]

\* the body of the loop over choice_tagged_re's captures; s is [st, idx, alts]
tagged_alt_step(s, c) ==
    LET tag == parse_u32(c.tag[1])
    IN  IF s.st # "ok" THEN s
        ELSE IF tag = <<>> THEN [s EXCEPT !.st = "err"]
        ELSE [s EXCEPT !.alts =
                 insert(@, <<tag_class_from_word(c.cls_word), tag[1]>>,
                        <<Spelling[c.field_name], c.field_type>>)]

\* the body of the loop over choice_untagged_re's captures; st becomes
\* "abort" when SYNTH_CHOICE_BASE + idx overflows in a build that checks
untagged_alt_step(s, c) ==
    IF s.st # "ok" THEN s
    ELSE IF c.field_name = "isPdu" \/ c.field_name = "TRUE" THEN s
    ELSE Bind(u32_add(SYNTH_CHOICE_BASE, s.idx), LAMBDA sum :
             IF sum.overflow /\ overflow_checks THEN [s EXCEPT !.st = "abort"]
             ELSE [st |-> "ok",
                   idx |-> u32_add(s.idx, U32(1)).value,
                   alts |-> insert(s.alts, <<3, sum.value>>,
                                   <<Spelling[c.field_name], c.field_type>>)])

\* 4. Resolve COMPONENTS OF: the body of the loop, for the pair (target, source)
components_step(sch, pair) ==
    LET target == pair[1]
        source == pair[2]
        source_fields == IF source \in DOMAIN sch.sequences THEN <<sch.sequences[source]>>
                         ELSE IF source \in DOMAIN sch.sets THEN <<sch.sets[source]>>
                         ELSE <<>>
    IN  IF source_fields = <<>> THEN sch
        ELSE IF target \in DOMAIN sch.sequences
        THEN [sch EXCEPT !.sequences[target] = extend(@, source_fields[1])]
        ELSE IF target \in DOMAIN sch.sets
        THEN [sch EXCEPT !.sets[target] = extend(@, source_fields[1])]
        ELSE sch

\* the body of one of the inner loops of parse
loop_body(loop, s, c) ==
    CASE loop = "aliases" -> alias_step(s, c)
      [] loop = "type_defs" -> type_def_step(s, c)
      [] loop = "fields" -> field_step(s, c)
      [] loop = "tagged_alts" -> tagged_alt_step(s, c)
      [] loop = "untagged_alts" -> untagged_alt_step(s, c)
      [] loop = "components" -> components_step(s, c)

\* for c in cs[lo..hi] { body }, from the state s
RECURSIVE for_each(_, _, _, _, _)
for_each(loop, cs, lo, hi, s) ==
    IF lo > hi THEN s
    ELSE IF lo = hi THEN Bind(s, LAMBDA v : loop_body(loop, v, cs[lo]))
    ELSE Bind(for_each(loop, cs, lo, (lo + hi) \div 2, s), LAMBDA v :
             for_each(loop, cs, (lo + hi) \div 2 + 1, hi, v))

\* the pairs pushed on components_queue for one definition
components_of(d) ==
    Bind(captures_iter("components_of_re", d.body), LAMBDA cs :
        [i \in 1..Len(cs) |-> <<d.type_name, cs[i].source_type>>])

\* the fields of a SEQUENCE or SET definition
parse_fields(d, sch) ==
    Bind(captures_iter("field_re", d.body), LAMBDA cs :
        for_each("fields", cs, 1, Len(cs), [st |-> "ok", schema |-> sch, fields |-> EmptyMap]))

\* the alternatives of a CHOICE definition
parse_alts(d) ==
    Bind(captures_iter("choice_tagged_re", d.body), LAMBDA cs :
    Bind(for_each("tagged_alts", cs, 1, Len(cs),
                  [st |-> "ok", idx |-> U32(0), alts |-> EmptyMap]), LAMBDA t :
        IF t.st = "ok" /\ t.alts = EmptyMap
        THEN Bind(captures_iter("choice_untagged_re", d.body), LAMBDA us :
                 for_each("untagged_alts", us, 1, Len(us), t))
        ELSE t))

\* 3. Process Structures: the body of the loop, for the definition d;
\* r is [st, schema, components_queue]
structure_step(r, d) ==
    IF r.st # "ok" THEN r
    ELSE IF d.type_kind \in {"SEQUENCE", "SET"}
    THEN IF d.of_type # <<>>
         THEN IF d.type_kind = "SET"
              THEN [r EXCEPT !.schema.set_of_types = insert(@, d.type_name, d.of_type[1])]
              ELSE [r EXCEPT !.schema.seq_of_types = insert(@, d.type_name, d.of_type[1])]
         ELSE Bind(parse_fields(d, r.schema), LAMBDA f :
                  IF f.st # "ok" THEN [r EXCEPT !.st = f.st]
                  ELSE [st |-> "ok",
                        schema |->
                           IF d.type_kind = "SET"
                           THEN [r.schema EXCEPT !.sets = insert(@, d.type_name, f.fields)]
                           ELSE [r.schema EXCEPT !.sequences = insert(@, d.type_name, f.fields)],
                        components_queue |-> r.components_queue \o components_of(d)])
    ELSE IF d.type_kind = "CHOICE"
    THEN Bind(parse_alts(d), LAMBDA a :
             IF a.st # "ok" THEN [r EXCEPT !.st = a.st]
             ELSE [r EXCEPT !.schema.choices = insert(@, d.type_name, a.alts)])
    ELSE r

\* for d in defs[lo..hi] { ... }
RECURSIVE process_structures(_, _, _, _)
process_structures(defs, lo, hi, r) ==
    IF lo > hi THEN r
    ELSE IF lo = hi THEN Bind(r, LAMBDA v : structure_step(v, defs[lo]))
    ELSE Bind(process_structures(defs, lo, (lo + hi) \div 2, r), LAMBDA v :
             process_structures(defs, (lo + hi) \div 2 + 1, hi, v))

\* Asn1Schema::parse; st: "ok" (Ok(schema)), "err" (Err) or "abort" (a panic)
parse(text) ==
    Bind(captures_iter("alias_re", text), LAMBDA as :
    Bind(captures_iter("type_assign_re", text), LAMBDA defs :
    Bind(for_each("type_defs", defs, 1, Len(defs),
                  [EmptySchema EXCEPT !.aliases = for_each("aliases", as, 1, Len(as), EmptyMap)]),
         LAMBDA s2 :
    Bind(process_structures(defs, 1, Len(defs),
                            [st |-> "ok", schema |-> s2, components_queue |-> <<>>]),
         LAMBDA r :
        IF r.st # "ok" THEN [st |-> r.st, schema |-> EmptySchema]
        ELSE [st |-> "ok",
              schema |-> for_each("components", r.components_queue, 1,
                                  Len(r.components_queue), r.schema)]))))

----------------------------------------------------------------------------
(* The schema the decoder is checked with, as Asn1Schema::parse compiles it *)
(* from this text:                                                          *)
(*                                                                         *)
(*     R ::= SEQUENCE {                                                    *)
(*         a [0] INTEGER,                                                  *)
(*         s [1] S,                                                        *)
(*         l [2] SEQUENCE OF INTEGER,                                      *)
(*         c [3] C,                                                        *)
(*         u [4] U                                                         *)
(*     }                                                                   *)
(*     S ::= SET {                                                         *)
(*         b [0] INTEGER,                                                  *)
(*         a [1] INTEGER OPTIONAL                                          *)
(*     }                                                                   *)
(*     C ::= CHOICE {                                                      *)
(*         x [0] D,                                                        *)
(*         y [1] INTEGER                                                   *)
(*     }                                                                   *)
(*     D ::= CHOICE {                                                      *)
(*         z [0] INTEGER                                                   *)
(*     }                                                                   *)
(*     U ::= CHOICE {                                                      *)
(*         r R,                                                            *)
(*         q Q,                                                            *)
(*         s S                                                             *)
(*     }                                                                   *)
(*     Q ::= SEQUENCE {                                                    *)
(*         k [0] INTEGER                                                   *)
(*     }                                                                   *)
(*     L ::= SEQUENCE OF S                                                 *)
(*     M ::= SET OF C                                                      *)
(*     T ::= R                                                             *)
(*     P ::= INTEGER                                                       *)

Schema1 ==
    [choices |->
        ("C" :> (
            (TagKey(2, 0) :> <<<<"x">>, "D">>) @@
            (TagKey(2, 1) :> <<<<"y">>, "INTEGER">>))) @@
        ("D" :> (
            (TagKey(2, 0) :> <<<<"z">>, "INTEGER">>))) @@
        ("U" :> (
            (synth_key(0) :> <<<<"r">>, "R">>) @@
            (synth_key(1) :> <<<<"q">>, "Q">>) @@
            (synth_key(2) :> <<<<"s">>, "S">>))),
     sequences |->
        ("R" :> (
            (TagKey(2, 0) :> FieldSpec(<<"a">>, "INTEGER", FALSE, FALSE, FALSE)) @@
            (TagKey(2, 1) :> FieldSpec(<<"s">>, "S", FALSE, FALSE, FALSE)) @@
            (TagKey(2, 2) :> FieldSpec(<<"l">>, "INTEGER", FALSE, TRUE, FALSE)) @@
            (TagKey(2, 3) :> FieldSpec(<<"c">>, "C", FALSE, FALSE, FALSE)) @@
            (TagKey(2, 4) :> FieldSpec(<<"u">>, "U", FALSE, FALSE, FALSE)))) @@
        ("Q" :> (
            (TagKey(2, 0) :> FieldSpec(<<"k">>, "INTEGER", FALSE, FALSE, FALSE)))),
     sets |->
        ("S" :> (
            (TagKey(2, 0) :> FieldSpec(<<"b">>, "INTEGER", FALSE, FALSE, FALSE)) @@
            (TagKey(2, 1) :> FieldSpec(<<"a">>, "INTEGER", TRUE, FALSE, FALSE)))),
     seq_of_types |-> ("L" :> "S"),
     set_of_types |-> ("M" :> "C"),
     primitives |-> ("T" :> "R") @@ ("P" :> "INTEGER"),
     aliases |-> ("T" :> "R"),
     type_outer_tag |-> EmptyMap]

\* the largest table of alternatives whose keys a run iterates
MaxKeys(sch) ==
    LET sizes == {Cardinality(DOMAIN sch.choices[c]) : c \in DOMAIN sch.choices}
    IN  CHOOSE n \in sizes \cup {0} : \A m \in sizes : m <= n

\* every order in which a hash map of up to n keys can iterate them
HashOrders(n) ==
    {p \in [1..n -> 1..n] : \A i, j \in 1..n : p[i] = p[j] => i = j}

----------------------------------------------------------------------------
(* The decoder on its own: write_type applied to content bytes and a type. *)

\* TLVs the bodies are put together from
ItemA == <<128, 1, 5>>                  \* 80 01 05: [0] primitive
ItemB == <<129, 0>>                     \* 81 00: [1] primitive, empty
ItemUnknown == <<2, 1, 7>>              \* 02 01 07: universal 2, in no table
ItemUnknownLong == <<159, 129, 0, 0>>   \* 9f 81 00 00: [128] in long form, empty
ItemS == <<161, 2, 128, 0>>             \* a1 02 80 00: [1] constructed around 80 00
ItemSIndefinite == <<161, 128, 129, 0, 0, 0>>  \* a1 80 81 00 00 00: the same, indefinite
ItemSCut == <<161, 1, 128>>             \* a1 01 80: [1] constructed around a cut TLV
ItemCut == <<128, 5>>                   \* 80 05: a length past the end
ItemL == <<162, 3, 2, 1, 9>>            \* a2 03 02 01 09: [2] around an INTEGER
ItemC == <<163, 2, 129, 0>>             \* a3 02 81 00: [3] around [1]
ItemCEmpty == <<163, 2, 128, 0>>        \* a3 02 80 00: [3] around an empty [0]
ItemU == <<164, 2, 48, 0>>              \* a4 02 30 00: [4] around a SEQUENCE
ItemSequence == <<48, 0>>               \* 30 00
ItemSet == <<49, 2, 128, 0>>            \* 31 02 80 00
ItemOctets == <<4, 2, 128, 0>>          \* 04 02 80 00: an OCTET STRING around 80 00
ItemHuge == <<4, 136, 255, 255, 255, 255, 255, 255, 255, 255>>  \* length 2^64 - 1

Items ==
    {ItemA, ItemB, ItemUnknown, ItemUnknownLong, ItemS, ItemSIndefinite, ItemSCut,
     ItemCut, ItemL, ItemC, ItemCEmpty, ItemU, ItemSequence, ItemSet, ItemOctets,
     ItemHuge}

\* TLVs that share a tag key and content with another and differ in the
\* constructed bit or in how the length is written, and a TLV whose tag is
\* PRIVATE 4294967040, the first synthetic key
ItemALong == <<128, 129, 1, 5>>         \* 80 81 01 05: ItemA, length in long form
ItemSPrimitive == <<129, 2, 128, 0>>    \* 81 02 80 00: ItemS, primitive
ItemCOther == <<163, 2, 2, 0>>          \* a3 02 02 00: [3] around no alternative of C
ItemCOtherIndefinite == <<163, 128, 2, 0, 0, 0>>  \* a3 80 02 00 00 00: the same
ItemSynth == <<223, 143, 255, 255, 254, 0, 0>>    \* df 8f ff ff fe 00 00

DispatchItems ==
    {ItemA, ItemALong, ItemS, ItemSPrimitive, ItemCOther, ItemCOtherIndefinite, ItemSynth}

RECURSIVE Concats(_, _)
Concats(S, n) ==
    IF n = 0 THEN {<<>>}
    ELSE LET shorter == Concats(S, n - 1)
         IN  shorter \cup {s \o i : s \in shorter, i \in S}

\* the bytes short bodies are drawn from exhaustively
BodyBytes == {0, 1, 2, 48, 128, 161}

Bodies ==
    Concats(Items, MaxItems) \cup SeqsUpTo(BodyBytes, MaxBody)
        \cup Concats(DispatchItems, MaxDispatchItems)

DecodeTypes == {"R", "S", "C", "D", "U", "Q", "L", "M", "T", "INTEGER"}

InitDecode ==
    /\ overflow_checks \in BOOLEAN
    /\ schema = Schema1
    /\ schema_text = <<>>
    /\ hash_order = [i \in 1..MaxKeys(Schema1) |-> i]
    /\ type_name \in DecodeTypes
    /\ data \in Bodies
    /\ offset = 0
    /\ tlv = NoTlv
    /\ out = <<>>
    /\ root_start = 0
    /\ count = 0
    /\ records = <<>>
    /\ prev = NoRun
    /\ pc = "call"
    /\ inputs = <<>>
    /\ workers = <<>>
    /\ outputs = <<>>
    /\ reports = <<>>

\* a call write_type(data, type_name, out, scratch)
DecodeCall ==
    /\ pc = "call"
    /\ \E w \in {write_type(data, type_name)} :
           /\ out' = w.out
           /\ pc' = IF w.ok THEN "ret" ELSE "abort"
    /\ UNCHANGED <<overflow_checks, schema_text, data, offset, tlv, schema, hash_order, type_name,
                   root_start, count, records, prev>>
    /\ UNCHANGED driver_vars

NextDecode == DecodeCall

SpecDecode == InitDecode /\ [][NextDecode]_vars

----------------------------------------------------------------------------
(* Reading the output back: a JSON reader over the text, used to state     *)
(* what was written.                                                       *)

JsonFail == [end |-> 0, leaves |-> <<>>]

HasText(s, i, lit) == i + Len(lit) - 1 <= Len(s) /\ SubSeq(s, i, i + Len(lit) - 1) = lit

\* the index after the closing quote of the string whose content starts at i (0: none)
RECURSIVE JsonStringEnd(_, _)
JsonStringEnd(s, i) ==
    IF i > Len(s) THEN 0
    ELSE IF s[i] = "\"" THEN i + 1
    ELSE IF s[i] = "\\"
         THEN IF i + 1 <= Len(s) /\ s[i + 1] \in {"\"", "\\", "/", "b", "f", "n", "r", "t", "u"}
              THEN JsonStringEnd(s, i + 2)
              ELSE 0
    ELSE IF s[i] \in {"\n", "\r", "\t"} THEN 0
    ELSE JsonStringEnd(s, i + 1)

RECURSIVE JsonDigitsEnd(_, _)
JsonDigitsEnd(s, i) ==
    IF i <= Len(s) /\ s[i] \in {"0", "1", "2", "3", "4", "5", "6", "7", "8", "9"}
    THEN JsonDigitsEnd(s, i + 1)
    ELSE i

\* the JSON value starting at s[i]: the index after it (0: there is none) and
\* the texts of the values in it that are neither objects nor arrays
RECURSIVE JsonValue(_, _)
RECURSIVE JsonMembers(_, _)
RECURSIVE JsonElements(_, _)

JsonValue(s, i) ==
    IF i > Len(s) THEN JsonFail
    ELSE IF s[i] = "{"
    THEN IF i + 1 <= Len(s) /\ s[i + 1] = "}"
         THEN [end |-> i + 2, leaves |-> <<>>]
         ELSE JsonMembers(s, i + 1)
    ELSE IF s[i] = "["
    THEN IF i + 1 <= Len(s) /\ s[i + 1] = "]"
         THEN [end |-> i + 2, leaves |-> <<>>]
         ELSE JsonElements(s, i + 1)
    ELSE IF s[i] = "\""
    THEN LET e == JsonStringEnd(s, i + 1)
         IN  IF e = 0 THEN JsonFail ELSE [end |-> e, leaves |-> <<SubSeq(s, i, e - 1)>>]
    ELSE IF HasText(s, i, <<"n", "u", "l", "l">>)
    THEN [end |-> i + 4, leaves |-> <<SubSeq(s, i, i + 3)>>]
    ELSE IF HasText(s, i, <<"t", "r", "u", "e">>)
    THEN [end |-> i + 4, leaves |-> <<SubSeq(s, i, i + 3)>>]
    ELSE IF HasText(s, i, <<"f", "a", "l", "s", "e">>)
    THEN [end |-> i + 5, leaves |-> <<SubSeq(s, i, i + 4)>>]
    ELSE LET j == IF s[i] = "-" THEN i + 1 ELSE i
             e == JsonDigitsEnd(s, j)
         IN  IF e = j THEN JsonFail ELSE [end |-> e, leaves |-> <<SubSeq(s, i, e - 1)>>]

JsonMembers(s, i) ==
    IF i > Len(s) \/ s[i] # "\"" THEN JsonFail
    ELSE LET k == JsonStringEnd(s, i + 1)
         IN  IF k = 0 \/ k > Len(s) \/ s[k] # ":" THEN JsonFail
             ELSE LET v == JsonValue(s, k + 1)
                  IN  IF v.end = 0 \/ v.end > Len(s) THEN JsonFail
                      ELSE IF s[v.end] = "}"
                      THEN [end |-> v.end + 1, leaves |-> v.leaves]
                      ELSE IF s[v.end] = ","
                      THEN LET r == JsonMembers(s, v.end + 1)
                           IN  IF r.end = 0 THEN JsonFail
                               ELSE [end |-> r.end, leaves |-> v.leaves \o r.leaves]
                      ELSE JsonFail

JsonElements(s, i) ==
    LET v == JsonValue(s, i)
    IN  IF v.end = 0 \/ v.end > Len(s) THEN JsonFail
        ELSE IF s[v.end] = "]"
        THEN [end |-> v.end + 1, leaves |-> v.leaves]
        ELSE IF s[v.end] = ","
        THEN LET r == JsonElements(s, v.end + 1)
             IN  IF r.end = 0 THEN JsonFail
                 ELSE [end |-> r.end, leaves |-> v.leaves \o r.leaves]
        ELSE JsonFail

\* s is exactly one JSON value
IsJson(s) == JsonValue(s, 1).end = Len(s) + 1

JsonLeaves(s) == JsonValue(s, 1).leaves

HexChars == {"0", "1", "2", "3", "4", "5", "6", "7", "8", "9", "a", "b", "c", "d", "e", "f"}

\* a double-quoted string of lowercase hex digits, two per octet
IsHexString(leaf) ==
    /\ Len(leaf) >= 2
    /\ leaf[1] = "\"" /\ leaf[Len(leaf)] = "\""
    /\ Len(leaf) % 2 = 0
    /\ \A i \in 2..(Len(leaf) - 1) : leaf[i] \in HexChars

\* the members of the object s, in order: key (unquoted) and value text
RECURSIVE MembersFrom(_, _)
MembersFrom(s, i) ==
    LET k == JsonStringEnd(s, i + 1)
        v == JsonValue(s, k + 1).end
        m == [key |-> SubSeq(s, i + 1, k - 2), value |-> SubSeq(s, k + 1, v - 1)]
    IN  IF s[v] = "," THEN <<m>> \o MembersFrom(s, v + 1) ELSE <<m>>

IsObject(s) == IsJson(s) /\ s[1] = "{"

Members(s) == IF s[2] = "}" THEN <<>> ELSE MembersFrom(s, 2)

\* the elements of the array s, in order
RECURSIVE ElementsFrom(_, _)
ElementsFrom(s, i) ==
    LET v == JsonValue(s, i).end
    IN  IF s[v] = "," THEN <<SubSeq(s, i, v - 1)>> \o ElementsFrom(s, v + 1)
        ELSE <<SubSeq(s, i, v - 1)>>

IsArray(s) == IsJson(s) /\ s[1] = "["

Elements(s) == IF s[2] = "]" THEN <<>> ELSE ElementsFrom(s, 2)

\* the bytes a hex text stands for
HexValue(c) == CHOOSE v \in 0..15 : HEX[v + 1] = c

UnHex(h) == [i \in 1..(Len(h) \div 2) |-> HexValue(h[2 * i - 1]) * 16 + HexValue(h[2 * i])]

\* the u32 a decimal text stands for
RECURSIVE UnDecimal(_, _)
UnDecimal(digits, acc) ==
    IF digits = <<>> THEN acc
    ELSE LET dv == CHOOSE v \in 0..9 : DIGITS[v + 1] = Head(digits)
             lo == acc[2] * 10 + dv
         IN  UnDecimal(Tail(digits), <<acc[1] * 10 + lo \div 65536, lo % 65536>>)

IsDecimal(digits) ==
    /\ digits # <<>>
    /\ \A i \in 1..Len(digits) : \E v \in 0..9 : DIGITS[v + 1] = digits[i]
    /\ Len(digits) > 1 => digits[1] # "0"

\* the TLVs of a body: parse_tlv from 0 on, each from where the one before
\* ended, up to the end of the body or the first offset with no TLV
RECURSIVE BodyTlvsFrom(_, _)
BodyTlvsFrom(d, off) ==
    IF off >= Len(d) THEN <<>>
    ELSE LET t == parse_tlv(d, off)
         IN  IF t.st # "some" \/ t.next <= off THEN <<>>
             ELSE <<t>> \o BodyTlvsFrom(d, t.next)

BodyTlvs(d) == BodyTlvsFrom(d, 0)

\* where the TLVs of a body end
BodyEnd(d) == IF BodyTlvs(d) = <<>> THEN 0 ELSE BodyTlvs(d)[Len(BodyTlvs(d))].next

\* parse_tlv fails inside the body: at BodyEnd(d) there are bytes and no TLV
BodyIsCut(d) == BodyEnd(d) < Len(d)

\* the table of the SEQUENCE/SET type t (EmptyMap if t is none)
FieldTable(t) ==
    LET rt == resolve_alias(t)
    IN  IF rt \in DOMAIN schema.seq_of_types \cup DOMAIN schema.set_of_types
           \cup DOMAIN schema.choices
        THEN EmptyMap
        ELSE IF rt \in DOMAIN schema.sequences THEN schema.sequences[rt]
        ELSE IF rt \in DOMAIN schema.sets THEN schema.sets[rt]
        ELSE EmptyMap

IsSequenceType(t) ==
    LET rt == resolve_alias(t)
    IN  /\ rt \notin DOMAIN schema.seq_of_types \cup DOMAIN schema.set_of_types
              \cup DOMAIN schema.choices
        /\ rt \in DOMAIN schema.sequences \cup DOMAIN schema.sets

IsSequenceOfType(t) ==
    resolve_alias(t) \in DOMAIN schema.seq_of_types \cup DOMAIN schema.set_of_types

KeyOf(t) == <<t.tag_class, t.tag_num>>

\* C4 as stated: whatever the schema and the input, the text written for a
\* line is one complete JSON value (every { and [ closed, members separated
\* by one comma, every key followed by : and a value), also when a body is cut
\* short by a malformed TLV.
C4_LineIsJson ==
    (pc # "call" /\ out # <<>>) => IsJson(out)

\* C5 as stated: every value written that is not an object or an array is a
\* double-quoted lowercase hex string of even length; no number, boolean or
\* null is written.
C5_HexOnlyLeaves ==
    (pc = "ret") =>
        /\ IsJson(out)
        /\ \A i \in 1..Len(JsonLeaves(out)) : IsHexString(JsonLeaves(out)[i])

\* C8: a SEQUENCE/SET body is written as an object with exactly one member
\* per TLV parsed from the body, in the order of the encoding; the member of
\* a TLV whose tag key is in the field table has that field's name as its
\* key; a field with no TLV in the body has no member.
C8_MembersFollowEncoding ==
    (pc = "ret" /\ IsSequenceType(type_name)) =>
        /\ IsObject(out)
        /\ Len(Members(out)) = Len(BodyTlvs(data))
        /\ \A i \in 1..Len(BodyTlvs(data)) :
              KeyOf(BodyTlvs(data)[i]) \in DOMAIN FieldTable(type_name) =>
                  Members(out)[i].key = FieldTable(type_name)[KeyOf(BodyTlvs(data)[i])].name
        /\ \A k \in DOMAIN FieldTable(type_name) :
              (\A i \in 1..Len(BodyTlvs(data)) : KeyOf(BodyTlvs(data)[i]) # k) =>
                  \A i \in 1..Len(Members(out)) :
                      Members(out)[i].key # FieldTable(type_name)[k].name

\* C8's case: two TLVs of a SET in the reverse of the order of declaration,
\* and a call that returned
C8_WitnessReverseOrder ==
    /\ pc = "ret" /\ type_name = "S"
    /\ Len(BodyTlvs(data)) = 2
    /\ KeyOf(BodyTlvs(data)[1]) = TagKey(2, 1)
    /\ KeyOf(BodyTlvs(data)[2]) = TagKey(2, 0)

UnknownTagPrefix == <<"u", "n", "k", "n", "o", "w", "n", "_", "t", "a", "g", "_">>

\* key is unknown_tag_<class>_<num> for the TLV t, in decimal
IsUnknownTagKey(key, t) ==
    /\ Len(key) >= Len(UnknownTagPrefix) + 3
    /\ SubSeq(key, 1, Len(UnknownTagPrefix)) = UnknownTagPrefix
    /\ key[Len(UnknownTagPrefix) + 2] = "_"
    /\ LET c == SubSeq(key, Len(UnknownTagPrefix) + 1, Len(UnknownTagPrefix) + 1)
           n == SubSeq(key, Len(UnknownTagPrefix) + 3, Len(key))
       IN  /\ IsDecimal(c) /\ UnDecimal(c, U32(0)) = U32(t.tag_class)
           /\ t.tag_class \in 0..3
           /\ IsDecimal(n) /\ UnDecimal(n, U32(0)) = t.tag_num

\* C9: a TLV of a SEQUENCE/SET body whose tag key is not in the field table
\* is written as the member "unknown_tag_<class>_<num>" with the hex of its
\* content; the call returns, and every TLV after it has its member too.
C9_UnknownTagMember ==
    (pc = "ret" /\ IsSequenceType(type_name)) =>
        /\ IsObject(out)
        /\ Len(Members(out)) = Len(BodyTlvs(data))
        /\ \A i \in 1..Len(BodyTlvs(data)) :
              KeyOf(BodyTlvs(data)[i]) \notin DOMAIN FieldTable(type_name) =>
                  /\ IsUnknownTagKey(Members(out)[i].key, BodyTlvs(data)[i])
                  /\ IsHexString(Members(out)[i].value)
                  /\ UnHex(SubSeq(Members(out)[i].value, 2, Len(Members(out)[i].value) - 1))
                         = BodyTlvs(data)[i].value

\* C9's case: an unknown tag with a number of several digits and content,
\* followed by a TLV of a known field
C9_WitnessUnknownThenKnown ==
    /\ pc = "ret" /\ IsSequenceType(type_name)
    /\ Len(BodyTlvs(data)) = 2
    /\ KeyOf(BodyTlvs(data)[1]) \notin DOMAIN FieldTable(type_name)
    /\ BodyTlvs(data)[1].value # <<>>
    /\ KeyOf(BodyTlvs(data)[2]) \in DOMAIN FieldTable(type_name)

\* the field a TLV of the body selects is not of a CHOICE type
NotChoiceField(t) ==
    KeyOf(t) \in DOMAIN FieldTable(type_name) =>
        resolve_alias(FieldTable(type_name)[KeyOf(t)].field_type) \notin DOMAIN schema.choices

\* C12 as stated: two TLVs of one SEQUENCE/SET body get the same member name
\* exactly when their tag keys are equal, and for equal tag keys and equal
\* content bytes the whole member is the same: nothing but the tag key and
\* the content decides how a TLV is decoded.
C12_TagKeyAloneDecides ==
    (pc = "ret" /\ IsSequenceType(type_name)) =>
        \A tlvs \in {BodyTlvs(data)} : \A members \in {Members(out)} :
            \A i, j \in 1..Len(tlvs) :
                /\ (KeyOf(tlvs[i]) = KeyOf(tlvs[j])) <=> (members[i].key = members[j].key)
                /\ (KeyOf(tlvs[i]) = KeyOf(tlvs[j]) /\ tlvs[i].value = tlvs[j].value)
                       => members[i] = members[j]

\* C12: two TLVs of one SEQUENCE/SET body get the same member name exactly
\* when their tag keys are equal.  The value written depends on more than
\* the tag key and the content: for a field that is not of a CHOICE type,
\* TLVs with equal tag keys, equal content and the same constructed bit get
\* the same member, however their lengths are written; a field of a CHOICE
\* type gets the same member for the same raw bytes.
C12_TagKeyNamesMember ==
    (pc = "ret" /\ IsSequenceType(type_name)) =>
        \A tlvs \in {BodyTlvs(data)} : \A members \in {Members(out)} :
            \A i, j \in 1..Len(tlvs) :
                /\ (KeyOf(tlvs[i]) = KeyOf(tlvs[j])) <=> (members[i].key = members[j].key)
                /\ (KeyOf(tlvs[i]) = KeyOf(tlvs[j])
                       /\ tlvs[i].value = tlvs[j].value
                       /\ tlvs[i].constructed = tlvs[j].constructed
                       /\ NotChoiceField(tlvs[i]))
                       => members[i] = members[j]
                /\ (tlvs[i].raw = tlvs[j].raw) => members[i] = members[j]

\* C12's case: two TLVs of a known field with the same tag key, content and
\* constructed bit whose encodings differ
C12_WitnessSameKeyOtherEncoding ==
    /\ pc = "ret" /\ IsSequenceType(type_name)
    /\ Len(BodyTlvs(data)) = 2
    /\ KeyOf(BodyTlvs(data)[1]) = KeyOf(BodyTlvs(data)[2])
    /\ KeyOf(BodyTlvs(data)[1]) \in DOMAIN FieldTable(type_name)
    /\ BodyTlvs(data)[1].value = BodyTlvs(data)[2].value
    /\ BodyTlvs(data)[1].value # <<>>
    /\ BodyTlvs(data)[1].constructed = BodyTlvs(data)[2].constructed
    /\ BodyTlvs(data)[1].raw # BodyTlvs(data)[2].raw
    /\ Members(out)[1] = Members(out)[2]

\* C13 as stated: the direct-match step of write_choice never selects an
\* alternative that is stored under a synthetic key, whatever the class and
\* number of the tag read from the input.
C13_NoDirectMatchOnSyntheticKey ==
    (pc = "ret" /\ resolve_alias(type_name) \in DOMAIN schema.choices) =>
        \E outer \in {parse_tlv(data, 0)} :
            outer.st = "some" =>
                \E cands \in {some_candidates(choice_candidates(outer))} :
                \E dm \in {direct_match(cands, schema.choices[resolve_alias(type_name)])} :
                    dm # 0 =>
                        ~(cands[dm].tag_class = 3 /\ is_synth_choice_tag(cands[dm].tag_num))

\* the TLV inside outer that write_choice also tries: the first TLV of the
\* content of a constructed outer TLV, or of a universal primitive tag-4 TLV
\* whose content is not empty and does not start with 00
InnerCandidate(outer) ==
    IF outer.constructed
       \/ (outer.tag_class = 0 /\ outer.tag_num = U32(4)
              /\ outer.value # <<>> /\ At(outer.value, 0) # 0)
    THEN parse_tlv(outer.value, 0)
    ELSE NoTlv

\* {"<altName>": <cand.value decoded as the alternative's type>}
AltMember(cand, alts) ==
    <<"{">> \o write_json_key(alts[KeyOf(cand)][1]) \o <<":">>
            \o write_type(cand.value, alts[KeyOf(cand)][2]).out \o <<"}">>

\* C24: in the direct-match step of write_choice the candidates are tried in
\* the order outer TLV, then the first inner TLV (of a constructed outer TLV,
\* or of a universal primitive tag-4 TLV with non-empty content not starting
\* with 00); the first candidate whose tag key is an alternative key decides,
\* and the line is {"<altName>": candidate.value decoded as the alternative's
\* type}. A match on the outer TLV wins over a match on the inner one.
C24_DirectMatchInCandidateOrder ==
    (pc = "ret" /\ resolve_alias(type_name) \in DOMAIN schema.choices) =>
        \A alts \in {schema.choices[resolve_alias(type_name)]} :
        \A outer \in {parse_tlv(data, 0)} :
            outer.st = "some" =>
                \A inner \in {InnerCandidate(outer)} :
                    IF KeyOf(outer) \in DOMAIN alts
                    THEN out = AltMember(outer, alts)
                    ELSE (inner.st = "some" /\ KeyOf(inner) \in DOMAIN alts)
                            => out = AltMember(inner, alts)

\* C24's case: the outer TLV a1 .. and its first inner TLV 80 00 both carry
\* the key of an alternative of C ([1] y and [0] x); y is written
C24_WitnessOuterAndInnerMatch ==
    /\ pc = "ret" /\ type_name = "C"
    /\ parse_tlv(data, 0).st = "some"
    /\ KeyOf(parse_tlv(data, 0)) \in DOMAIN schema.choices["C"]
    /\ InnerCandidate(parse_tlv(data, 0)).st = "some"
    /\ KeyOf(InnerCandidate(parse_tlv(data, 0))) \in DOMAIN schema.choices["C"]
    /\ KeyOf(InnerCandidate(parse_tlv(data, 0))) # KeyOf(parse_tlv(data, 0))
    /\ out = AltMember(parse_tlv(data, 0), schema.choices["C"])

\* C24's second case: only the inner TLV carries the key of an alternative
C24_WitnessInnerOnly ==
    /\ pc = "ret" /\ type_name = "C"
    /\ parse_tlv(data, 0).st = "some"
    /\ KeyOf(parse_tlv(data, 0)) \notin DOMAIN schema.choices["C"]
    /\ InnerCandidate(parse_tlv(data, 0)).st = "some"
    /\ KeyOf(InnerCandidate(parse_tlv(data, 0))) \in DOMAIN schema.choices["C"]
    /\ out = AltMember(InnerCandidate(parse_tlv(data, 0)), schema.choices["C"])

\* C10 as stated: when parse_tlv fails at an offset inside a SEQUENCE/SET or
\* SEQUENCE OF/SET OF body, the call returns without error, the object or
\* array is closed, and it holds the members or elements of the TLVs before
\* that offset and nothing for the bytes from it on.
C10_CutBodyIsClosed ==
    (pc # "call" /\ BodyIsCut(data)
        /\ (IsSequenceType(type_name) \/ IsSequenceOfType(type_name))) =>
        /\ pc = "ret"
        /\ IsJson(out)
        /\ IsSequenceType(type_name) =>
              (IsObject(out) /\ Len(Members(out)) = Len(BodyTlvs(data)))
        /\ IsSequenceOfType(type_name) =>
              (IsArray(out) /\ Len(Elements(out)) = Len(BodyTlvs(data)))

----------------------------------------------------------------------------
(* The TLV reader on its own: parse_tlv applied to a buffer at an offset.  *)

\* the bytes the buffers are drawn from: 00, 01, 04 (OCTET STRING),
\* 30 (SEQUENCE), 3f (long-form tag), 80 (indefinite), 81 (long form, 1 octet)
TlvBytes == {0, 1, 4, 48, 63, 128, 129}

\* length octets of a long-form length: ff..ff, 01 00..00, 00..00 01, ff..ff fe
LenPatterns(n) ==
    {[i \in 1..n |-> 255],
     [i \in 1..n |-> IF i = 1 THEN 1 ELSE 0],
     [i \in 1..n |-> IF i = n THEN 1 ELSE 0],
     [i \in 1..n |-> IF i = n THEN 254 ELSE 255]}

\* an OCTET STRING with a long-form length of 1..MaxLenOctets octets,
\* followed by no content or by one octet
LongLenTlvs ==
    UNION {{<<4, 128 + n>> \o p \o c : p \in LenPatterns(n), c \in {<<>>, <<0>>}} :
              n \in 1..MaxLenOctets}

\* the same inside an indefinite-length SEQUENCE, and either after one octet
StressBuffers ==
    {pre \o b : pre \in {<<>>, <<1>>},
                b \in LongLenTlvs \cup {<<48, 128>> \o t \o <<0, 0>> : t \in LongLenTlvs}}

\* continuation octets of a long-form tag: 81 80..80 00, 90 80..80 00,
\* ff..ff 7f, 80..80 01 and 80..80 00
TagPatterns(n) ==
    {[i \in 1..n |-> IF i = n THEN 0 ELSE IF i = 1 THEN 129 ELSE 128],
     [i \in 1..n |-> IF i = n THEN 0 ELSE IF i = 1 THEN 144 ELSE 128],
     [i \in 1..n |-> IF i = n THEN 127 ELSE 255],
     [i \in 1..n |-> IF i = n THEN 1 ELSE 128],
     [i \in 1..n |-> IF i = n THEN 0 ELSE 128]}

\* an empty primitive TLV of each class with a long-form tag of
\* 1..MaxTagOctets continuation octets, alone or followed by one octet
LongTagTlvs ==
    UNION {{<<first>> \o p \o <<0>> \o c :
               first \in {31, 95, 159, 223}, p \in TagPatterns(n), c \in {<<>>, <<0>>}} :
              n \in 1..MaxTagOctets}

\* 30 80 <content> 00 00
Wrap(c) == <<48, 128>> \o c \o <<0, 0>>

\* content put n levels deep in indefinite-length SEQUENCEs
RECURSIVE Nested(_, _)
Nested(n, c) == IF n = 0 THEN c ELSE Wrap(Nested(n - 1, c))

\* what the innermost SEQUENCE holds: nothing; OCTET STRINGs with content
\* 00, 00 00 and with a long-form length; the two of the example 04 01 11
\* 04 01 22; a definite-length SEQUENCE around 00 00; two indefinite-length
\* SEQUENCEs side by side; a long-form tag
NestedContents ==
    {<<>>, <<4, 1, 0>>, <<4, 2, 0, 0>>, <<4, 129, 1, 0>>, <<4, 1, 17, 4, 1, 34>>,
     <<48, 2, 0, 0>>, Wrap(<<>>) \o Wrap(<<4, 1, 0>>), <<63, 129, 0, 1, 0>>}

\* nested indefinite-length TLVs, whole or cut before the last end-of-contents
\* octet, after nothing or one octet and before nothing, 00 00 or 04
NestedBuffers ==
    {pre \o SubSeq(Nested(n, c), 1, Len(Nested(n, c)) - cut) \o post :
        n \in 1..MaxDepth, c \in NestedContents, cut \in {0, 1},
        pre \in {<<>>, <<1>>}, post \in {<<>>, <<0, 0>>, <<4>>}}

TlvBuffers == SeqsUpTo(TlvBytes, MaxLen) \cup StressBuffers \cup LongTagTlvs \cup NestedBuffers

InitTlv ==
    /\ overflow_checks \in BOOLEAN
    /\ data \in TlvBuffers
    /\ offset \in 0..MaxLen
    /\ offset <= Len(data)
    /\ tlv = NoTlv
    /\ schema = EmptySchema
    /\ schema_text = <<>>
    /\ hash_order = <<>>
    /\ type_name = ""
    /\ out = <<>>
    /\ root_start = 0
    /\ count = 0
    /\ records = <<>>
    /\ prev = NoRun
    /\ pc = "call"
    /\ inputs = <<>>
    /\ workers = <<>>
    /\ outputs = <<>>
    /\ reports = <<>>

TlvCall ==
    /\ pc = "call"
    /\ tlv' = parse_tlv(data, offset)
    /\ pc' = IF tlv'.st = "abort" THEN "abort" ELSE "ret"
    /\ UNCHANGED <<overflow_checks, schema_text, data, offset, schema, hash_order, type_name, out,
                   root_start, count, records, prev>>
    /\ UNCHANGED driver_vars

NextTlv == TlvCall

SpecTlv == InitTlv /\ [][NextTlv]_vars

\* the length octet of the TLV at offset off of d is 0x80
IsIndefiniteAt(d, off) ==
    /\ off < Len(d)
    /\ read_tag(d, off).off < Len(d)
    /\ At(d, read_tag(d, off).off) = 128

\* where a slice ends in the buffer
ValueEnd(t) == t.value_start + Len(t.value)

RawEnd(t) == t.raw_start + Len(t.raw)

\* C1 as stated: for every TLV parse_tlv returns (definite or indefinite length),
\* raw.len() = next_offset - offset and value is a suffix of raw, ending
\* exactly where raw ends.
C1_ValueSuffixOfRaw ==
    (pc = "ret" /\ tlv.st = "some") =>
        /\ Len(tlv.raw) = tlv.next - offset
        /\ Len(tlv.value) <= Len(tlv.raw)
        /\ ValueEnd(tlv) = RawEnd(tlv)
        /\ tlv.value = SubSeq(tlv.raw, Len(tlv.raw) - Len(tlv.value) + 1, Len(tlv.raw))

\* C1 amended: raw is the whole triple, data[offset..next_offset], so
\* raw.len() = next_offset - offset; value lies inside raw; for a definite
\* length value ends exactly where raw ends, and for an indefinite length it
\* ends two octets before, the two octets being the end-of-contents 00 00.
C1_RawSpansTripleValueBeforeEoc ==
    (pc = "ret" /\ tlv.st = "some") =>
        /\ tlv.raw_start = offset
        /\ Len(tlv.raw) = tlv.next - offset
        /\ tlv.raw = Slice(data, offset, tlv.next)
        /\ tlv.raw_start < tlv.value_start
        /\ tlv.value = Slice(data, tlv.value_start, ValueEnd(tlv))
        /\ IF IsIndefiniteAt(data, offset)
           THEN /\ ValueEnd(tlv) + 2 = RawEnd(tlv)
                /\ Slice(data, ValueEnd(tlv), RawEnd(tlv)) = <<0, 0>>
           ELSE ValueEnd(tlv) = RawEnd(tlv)

\* C1's cases: an indefinite-length TLV with content, parsed at an offset
\* past the start of the buffer
C1_WitnessIndefinite ==
    /\ pc = "ret" /\ tlv.st = "some"
    /\ offset > 0
    /\ IsIndefiniteAt(data, offset)
    /\ Len(tlv.value) > 0

\* the number a long-form length encodes runs past the end of the buffer:
\* the length octets are data[o..o+n], the content would start at o + n
LongFormRunsPast(d, off) ==
    /\ off < Len(d)
    /\ read_tag(d, off).off < Len(d)
    /\ LET o == read_tag(d, off).off + 1
           n == At(d, o - 1) - 128
       IN  /\ n \in 1..127
           /\ o + n <= Len(d)
           /\ \/ \E i \in 0..(n - 4) : At(d, o + i) # 0
              \/ LET low == [i \in 1..3 |-> IF n - 3 + i >= 1 THEN At(d, o + n - 4 + i) ELSE 0]
                 IN  o + n + low[1] * 65536 + low[2] * 256 + low[3] > Len(d)

\* C2 as stated: parse_tlv either returns a TLV lying wholly inside the buffer
\* or returns "no TLV", and never aborts; a long-form length whose value runs
\* past the end of the buffer, however large, yields "no TLV".
C2_SoftFailure ==
    (pc # "call") =>
        /\ tlv.st \in {"some", "none"}
        /\ tlv.st = "some" => (offset < tlv.next /\ tlv.next <= Len(data))
        /\ LongFormRunsPast(data, offset) => tlv.st = "none"

\* the digits of a number in base 128, most significant first, without
\* leading zeros: of the continuation octets of a tag, and of a u32
RECURSIVE StripZeros(_)
StripZeros(ds) ==
    IF ds # <<>> /\ Head(ds) = 0 THEN StripZeros(Tail(ds)) ELSE ds

OctetDigits(d, from, to) == StripZeros([i \in 1..(to - from) |-> At(d, from + i - 1) % 128])

U32Digits(n) ==
    StripZeros(<<n[1] \div 4096, (n[1] \div 32) % 128,
                 (n[1] % 32) * 4 + n[2] \div 16384, (n[2] \div 128) % 128, n[2] % 128>>)

\* the TLV at offset has a long-form tag
HasLongTag(d, off) == off < Len(d) /\ At(d, off) % 32 = 31

\* C20 as stated: the tag number of a TLV with a long-form tag is the
\* base-128 big-endian value of the low 7 bits of its continuation octets,
\* however many there are.
C20_TagNumberIsBase128Value ==
    (pc = "ret" /\ tlv.st = "some" /\ HasLongTag(data, offset)) =>
        U32Digits(tlv.tag_num) = OctetDigits(data, offset + 1, read_tag(data, offset).off)

----------------------------------------------------------------------------
(* The file driver: process_file over one mapped input file, the root scan *)
(* of find_next_root_tlv one iteration at a time, and a second run over    *)
(* the same file with the same compiled schema.                            *)

\* pieces the input files are put together from
FileSeq == <<48, 3, 128, 1, 5>>         \* 30 03 80 01 05: a SEQUENCE around [0]
FileNested == <<48, 2, 48, 0>>          \* 30 02 30 00: a SEQUENCE around a SEQUENCE
FileSet == <<49, 2, 128, 0>>            \* 31 02 80 00: a SET around [0]
FileCtx == <<129, 0>>                   \* 81 00: [1] primitive
FileJunk == <<0>>                       \* 00: a byte no TLV starts at
FileCut == <<48, 5>>                    \* 30 05: a length past the end
FileHuge == <<48, 136, 255, 255, 255, 255, 255, 255, 255, 255>>  \* length 2^64 - 1

FileItems == {FileSeq, FileNested, FileSet, FileCtx, FileJunk, FileCut, FileHuge}

Files == Concats(FileItems, MaxFileItems)

\* root types: an alias of a SEQUENCE, a SET, a tagged and an untagged CHOICE,
\* a SEQUENCE OF, a SET OF and a primitive type
TypeNames == {"T", "S", "C", "U", "L", "M", "P"}

Init ==
    /\ overflow_checks \in BOOLEAN
    /\ schema = Schema1
    /\ schema_text = <<>>
    /\ hash_order = [i \in 1..MaxKeys(Schema1) |-> i]
    /\ type_name \in TypeNames
    /\ knows_type(type_name)
    /\ data \in Files
    /\ offset = 0
    /\ tlv = NoTlv
    /\ out = <<>>
    /\ root_start = 0
    /\ count = 0
    /\ records = <<>>
    /\ prev = NoRun
    /\ pc = "start"
    /\ inputs = <<>>
    /\ workers = <<>>
    /\ outputs = <<>>
    /\ reports = <<>>

\* process_file up to its loop: an empty file returns Ok(0) at once
ProcessFile ==
    /\ pc = "start"
    /\ offset' = 0
    /\ count' = 0
    /\ root_start' = 0
    /\ pc' = IF data = <<>> THEN "done" ELSE "scan"
    /\ UNCHANGED <<overflow_checks, schema_text, data, tlv, schema, hash_order, type_name, out,
                   records, prev>>
    /\ UNCHANGED driver_vars

\* one iteration of the loop of find_next_root_tlv
ScanStep ==
    /\ pc = "scan"
    /\ root_start < Len(data)
    /\ \E t \in {parse_tlv(data, root_start)} :
           IF t.st = "abort"
           THEN /\ pc' = "abort"
                /\ UNCHANGED <<tlv, root_start>>
           ELSE IF t.st = "some" /\ t.next > root_start /\ tlv_matches_root(t, type_name)
           THEN /\ tlv' = t
                /\ pc' = "write"
                /\ UNCHANGED root_start
           ELSE /\ root_start' = retry_from(root_start)
                /\ UNCHANGED <<tlv, pc>>
    /\ UNCHANGED <<overflow_checks, schema_text, data, offset, schema, hash_order, type_name, out,
                   count, records, prev>>
    /\ UNCHANGED driver_vars

\* find_next_root_tlv returns None and process_file leaves its loop
ScanEnd ==
    /\ pc = "scan"
    /\ ~(root_start < Len(data))
    /\ pc' = "flush"
    /\ UNCHANGED <<overflow_checks, schema_text, data, offset, tlv, schema, hash_order, type_name, out,
                   root_start, count, records, prev>>
    /\ UNCHANGED driver_vars

\* the rest of an iteration of process_file's loop: the record and its newline
\* are written, the cursor moves past the record, and the loop test is made.
\* On a panic or an Err the writer is dropped, which flushes what it holds.
WriteRecord ==
    /\ pc = "write"
    /\ \E w \in {write_root_tlv_with_type(tlv, type_name)} :
           IF w.st = "ok"
           THEN /\ out' = out \o w.out \o <<"\n">>
                /\ offset' = next_offset(tlv)
                /\ count' = count + 1
                /\ records' = Append(records, [start |-> tlv.raw_start, end |-> tlv.next])
                /\ root_start' = offset'
                /\ pc' = IF offset' < Len(data) THEN "scan" ELSE "flush"
           ELSE /\ out' = out \o w.out
                /\ pc' = IF w.st = "abort" THEN "abort" ELSE "error"
                /\ UNCHANGED <<offset, count, records, root_start>>
    /\ UNCHANGED <<overflow_checks, schema_text, data, tlv, schema, hash_order, type_name, prev>>
    /\ UNCHANGED driver_vars

\* writer.flush() and Ok(count)
Flush ==
    /\ pc = "flush"
    /\ pc' = "done"
    /\ UNCHANGED <<overflow_checks, schema_text, data, offset, tlv, schema, hash_order, type_name, out,
                   root_start, count, records, prev>>
    /\ UNCHANGED driver_vars

\* the program is run once more on the same file with the same compiled
\* schema; the hash maps of the new run iterate in an order of their own
Rerun ==
    /\ pc \in {"done", "abort", "error"}
    /\ ~prev.ran
    /\ prev' = [ran |-> TRUE, hash_order |-> hash_order, out |-> out, pc |-> pc]
    /\ hash_order' \in HashOrders(MaxKeys(schema))
    /\ offset' = 0
    /\ tlv' = NoTlv
    /\ out' = <<>>
    /\ root_start' = 0
    /\ count' = 0
    /\ records' = <<>>
    /\ pc' = "start"
    /\ UNCHANGED <<overflow_checks, schema_text, data, schema, type_name>>
    /\ UNCHANGED driver_vars

Next ==
    \/ ProcessFile
    \/ ScanStep
    \/ ScanEnd
    \/ WriteRecord
    \/ Flush
    \/ Rerun

Spec == Init /\ [][Next]_vars

\* A run keeps executing: a step of process_file that can be taken is taken
\* in the end.  Nothing makes a finished program run again, so Rerun has no
\* fairness.
SpecLive ==
    /\ Init /\ [][Next]_vars
    /\ WF_vars(ProcessFile)
    /\ WF_vars(ScanStep)
    /\ WF_vars(ScanEnd)
    /\ WF_vars(WriteRecord)
    /\ WF_vars(Flush)

\* a run has ended: process_file returned, or the process aborted
Ended == pc \in {"done", "abort", "error"}

\* the outer tag the root type stands for: the tag declared with the type, or
\* the universal tag of what the type is; none for a CHOICE
root_outer_tag(rt) ==
    IF rt \in DOMAIN schema.type_outer_tag
    THEN <<schema.type_outer_tag[rt]>>
    ELSE universal_tag_for_type(rt)

\* the TLV is one a record of the root type starts with
RootTagMatches(t, root_type) ==
    LET rt == resolve_alias(root_type)
    IN  IF rt \notin DOMAIN schema.type_outer_tag /\ rt \in DOMAIN schema.choices
        THEN \/ <<t.tag_class, t.tag_num>> \in DOMAIN schema.choices[rt]
             \/ synth_alt_matches(hash_keys(schema.choices[rt]), schema.choices[rt], t)
        ELSE root_outer_tag(rt) = <<(<<t.tag_class, t.tag_num>>)>>

\* C11: an iteration of the root scan that does not abort hands the TLV at
\* the cursor over as a record exactly when a TLV can be read there and its
\* tag key is the outer tag of the root type (or, for a CHOICE root, one of
\* its alternatives matches); in every other case it moves the cursor on by
\* exactly one byte and hands nothing over.
C11_RootMatchesByTagKey ==
    [][(pc = "scan" /\ root_start < Len(data) /\ pc' # "abort") =>
        \E t \in {parse_tlv(data, root_start)} :
            IF t.st = "some" /\ RootTagMatches(t, type_name)
            THEN pc' = "write" /\ tlv' = t /\ root_start' = root_start
            ELSE pc' = "scan" /\ root_start' = root_start + 1 /\ tlv' = tlv]_vars

\* C3: every iteration of the root scan moves its cursor on by at least one
\* byte (the retry of find_next_root_tlv moves root_start, an iteration of
\* process_file's loop moves offset), no cursor ever passes the end of the
\* buffer, and every run over a file ends.
C3_RootScanProgress ==
    /\ [][(pc = "scan" /\ pc' = "scan") => root_start' >= root_start + 1]_vars
    /\ [][(pc = "write" /\ pc' \in {"scan", "flush"}) =>
              (offset' >= offset + 1 /\ root_start' >= root_start + 1)]_vars
    /\ [](root_start <= Len(data) /\ offset <= Len(data))
    /\ [](pc = "write" => (root_start < tlv.next /\ tlv.next <= Len(data)))
    /\ (pc = "start") ~> Ended

\* C3's case: a run that retried byte by byte before its first record, wrote
\* a record and ran on to the end of the file
C3_WitnessRetriedAndEnded ==
    /\ pc = "done"
    /\ count >= 1
    /\ records[1].start > 0
    /\ root_start = Len(data)

\* C6: a second run over the same bytes with the same compiled schema and
\* root type ends as the first did with the same text written, whatever the
\* order in which the hash maps of either run iterate.
C6_SameOutputTwice ==
    (prev.ran /\ Ended) => (out = prev.out /\ pc = prev.pc)

\* C6's case: two runs with different iteration orders over a file with a
\* record that two untagged alternatives of the root CHOICE match
C6_WitnessTwoOrders ==
    /\ prev.ran /\ pc = "done"
    /\ prev.hash_order # hash_order
    /\ type_name = "U"
    /\ count >= 1
    /\ choice_alt_matches_tlv("R", parse_tlv(data, records[1].start))
    /\ choice_alt_matches_tlv("Q", parse_tlv(data, records[1].start))

\* the lines of a text, each ended by a newline
RECURSIVE LinesOf(_, _)
LinesOf(text, line) ==
    IF text = <<>> THEN <<>>
    ELSE IF Head(text) = "\n" THEN <<line>> \o LinesOf(Tail(text), <<>>)
    ELSE LinesOf(Tail(text), Append(line, Head(text)))

\* C7: the lines written for a file are in the byte order of the input: line
\* i is the root TLV found at records[i], each root TLV lies in the file, and
\* for lines i < j the root TLV of line i ends at or before the offset where
\* the root TLV of line j starts.
C7_LinesInByteOrder ==
    /\ Len(LinesOf(out, <<>>)) = Len(records)
    /\ count = Len(records)
    /\ \A i \in 1..Len(records) :
          /\ 0 <= records[i].start
          /\ records[i].start < records[i].end
          /\ records[i].end <= Len(data)
          /\ LinesOf(out, <<>>)[i] =
                 write_root_tlv_with_type(parse_tlv(data, records[i].start), type_name).out
    /\ \A i, j \in 1..Len(records) : i < j => records[i].end <= records[j].start

\* C7's case: two lines written, with bytes skipped between their root TLVs
C7_WitnessTwoLines ==
    /\ pc = "done"
    /\ Len(records) = 2
    /\ records[2].start > records[1].end

----------------------------------------------------------------------------
(* The compiler and the decoder together: main compiles the schema text,   *)
(* checks the root type and runs process_file over the input file.         *)

\* most alternatives of an untagged CHOICE
MaxAlternatives == 257
\* longest chain of aliases
MaxChain == 34

\* the lines ls as one text
RECURSIVE Lines(_)
Lines(ls) ==
    IF ls = <<>> THEN <<>>
    ELSE IF Len(ls) = 1 THEN ls[1]
    ELSE ls[1] \o <<NL>> \o Lines(Tail(ls))

\* the text Schema1 is compiled from
Schema1Text ==
    Lines(<<
        <<"R", "::=", "SEQUENCE", "{">>,
        <<"a", "[", "0", "]", "INTEGER", ",">>,
        <<"s", "[", "1", "]", "S", ",">>,
        <<"l", "[", "2", "]", "SEQUENCE", "OF", "INTEGER", ",">>,
        <<"c", "[", "3", "]", "C", ",">>,
        <<"u", "[", "4", "]", "U">>,
        <<"}">>,
        <<"S", "::=", "SET", "{">>,
        <<"b", "[", "0", "]", "INTEGER", ",">>,
        <<"a", "[", "1", "]", "INTEGER", "OPTIONAL">>,
        <<"}">>,
        <<"C", "::=", "CHOICE", "{">>,
        <<"x", "[", "0", "]", "D", ",">>,
        <<"y", "[", "1", "]", "INTEGER">>,
        <<"}">>,
        <<"D", "::=", "CHOICE", "{">>,
        <<"z", "[", "0", "]", "INTEGER">>,
        <<"}">>,
        <<"U", "::=", "CHOICE", "{">>,
        <<"r", "R", ",">>,
        <<"q", "Q", ",">>,
        <<"s", "S">>,
        <<"}">>,
        <<"Q", "::=", "SEQUENCE", "{">>,
        <<"k", "[", "0", "]", "INTEGER">>,
        <<"}">>,
        <<"L", "::=", "SEQUENCE", "OF", "S">>,
        <<"M", "::=", "SET", "OF", "C">>,
        <<"T", "::=", "R">>,
        <<"P", "::=", "INTEGER">>>>)

\* R ::= SEQUENCE { a [0] INTEGER } on one line
OneLineText == <<"R", "::=", "SEQUENCE", "{", "a", "[", "0", "]", "INTEGER", "}">>

\* the same with the field on a line of its own
ThreeLineText ==
    Lines(<<
        <<"R", "::=", "SEQUENCE", "{">>,
        <<"a", "[", "0", "]", "INTEGER">>,
        <<"}">>>>)

\* a SEQUENCE with one untagged field of the type written type, and a tagged one
FieldText(type) ==
    Lines(<<
        <<"R", "::=", "SEQUENCE", "{">>,
        <<"a">> \o type \o <<",">>,
        <<"z", "[", "9", "]", "INTEGER">>,
        <<"}">>>>)

\* the primitive kinds universal_tag_for_type knows, as a field's type is written
PrimitiveKinds ==
    {<<"INTEGER">>, <<"OCTET", "STRING">>, <<"BIT", "STRING">>, <<"BOOLEAN">>, <<"NULL">>,
     <<"ENUMERATED">>, <<"IA5String">>, <<"UTF8String">>, <<"OBJECT", "IDENTIFIER">>,
     <<"TBCD-STRING">>, <<"GraphicString">>, <<"VisibleString">>}

\* declarations a field's type can name: a SEQUENCE, a SET, a SEQUENCE OF, a
\* type with an outer tag, a primitive type and an alias
Declarations ==
    Lines(<<
        <<"Q", "::=", "SEQUENCE", "{">>,
        <<"k", "[", "0", "]", "INTEGER">>,
        <<"}">>,
        <<"S", "::=", "SET", "{">>,
        <<"b", "[", "0", "]", "INTEGER">>,
        <<"}">>,
        <<"L", "::=", "SEQUENCE", "OF", "S">>,
        <<"X", "::=", "[", "APPLICATION", "5", "]", "SEQUENCE", "{">>,
        <<"k", "[", "0", "]", "INTEGER">>,
        <<"}">>,
        <<"O", "::=", "OCTET", "STRING">>,
        <<"T", "::=", "Q">>>>)

\* what an untagged field's type is written as
FieldTypes ==
    PrimitiveKinds \cup
    {<<"SEQUENCE", "OF", "INTEGER">>, <<"SET", "OF", "INTEGER">>, <<"SEQUENCE", "OF", "Q">>,
     <<"SET", "OF", "X">>, <<"Q">>, <<"S">>, <<"L">>, <<"X">>, <<"O">>, <<"T">>}

\* the field's type declared before the SEQUENCE, or after it
DeclaredBefore(type) == Declarations \o <<NL>> \o FieldText(type)

DeclaredAfter(type) == FieldText(type) \o <<NL>> \o Declarations

\* three SEQUENCEs: T includes S, S includes B
DeclT ==
    Lines(<<
        <<"T", "::=", "SEQUENCE", "{">>,
        <<"t", "[", "0", "]", "INTEGER", ",">>,
        <<"COMPONENTS", "OF", "S">>,
        <<"}">>>>)

DeclS ==
    Lines(<<
        <<"S", "::=", "SEQUENCE", "{">>,
        <<"s", "[", "1", "]", "INTEGER", ",">>,
        <<"COMPONENTS", "OF", "B">>,
        <<"}">>>>)

DeclB ==
    Lines(<<
        <<"B", "::=", "SEQUENCE", "{">>,
        <<"b", "[", "2", "]", "INTEGER">>,
        <<"}">>>>)

\* the three in every order
ComponentsTexts ==
    {Lines(<<d[1], d[2], d[3]>>) :
        d \in {p \in [1..3 -> {DeclT, DeclS, DeclB}] : \A i, j \in 1..3 : p[i] = p[j] => i = j}}

\* a CHOICE of n untagged alternatives
ChoiceText(n) ==
    <<"U", "::=", "CHOICE", "{", NL>>
        \o [i \in 1..(3 * n) |-> IF i % 3 = 1 THEN "x" ELSE IF i % 3 = 2 THEN "INTEGER" ELSE ","]
        \o <<NL, "}">>

\* an untagged CHOICE with the placeholder pair isPdu TRUE among its alternatives
PlaceholderText ==
    Lines(<<
        <<"U", "::=", "CHOICE", "{">>,
        <<"r", "R", ",">>,
        <<"isPdu", "TRUE", ",">>,
        <<"q", "Q">>,
        <<"}">>,
        <<"R", "::=", "SEQUENCE", "{">>,
        <<"a", "[", "0", "]", "INTEGER">>,
        <<"}">>>>)

\* a tag number above u32::MAX at a field, and at an alternative
BigFieldTagText ==
    Lines(<<
        <<"R", "::=", "SEQUENCE", "{">>,
        <<"a", "[", "4294967296", "]", "INTEGER">>,
        <<"}">>>>)

BigAlternativeTagText ==
    Lines(<<
        <<"U", "::=", "CHOICE", "{">>,
        <<"x", "[", "4294967296", "]", "INTEGER">>,
        <<"}">>>>)

\* the tag PRIVATE 4294967040 written at an alternative
SynthTagText ==
    Lines(<<
        <<"U", "::=", "CHOICE", "{">>,
        <<"x", "[", "PRIVATE", "4294967040", "]", "INTEGER">>,
        <<"}">>,
        <<"R", "::=", "SEQUENCE", "{">>,
        <<"a", "[", "PRIVATE", "4294967040", "]", "INTEGER", "DEFAULT", "0", "OPTIONAL">>,
        <<"}">>>>)

\* the names aliases are declared for
AliasNames ==
    <<"A0", "A1", "A2", "A3", "A4", "A5", "A6", "A7", "A8", "A9", "A10",
      "A11", "A12", "A13", "A14", "A15", "A16", "A17", "A18", "A19", "A20",
      "A21", "A22", "A23", "A24", "A25", "A26", "A27", "A28", "A29", "A30",
      "A31", "A32", "A33", "A34", "A35", "A36", "A37", "A38", "A39">>

\* a chain of n aliases A0 ::= A1, ..., and one more from its end back to
\* A(back) when back is a position of the chain
AliasText(n, back) ==
    Lines([i \in 1..(IF back \in 0..n THEN n + 1 ELSE n) |->
              <<AliasNames[i], "::=", AliasNames[IF i = n + 1 THEN back + 1 ELSE i + 1]>>])

ChainLengths == {0, 1, 2, 3, AliasBound - 1, AliasBound, AliasBound + 1, MaxChain}

AliasTexts == {AliasText(n, back) : n \in ChainLengths, back \in {-1, 0, 1}}

SchemaTexts ==
    {Schema1Text, OneLineText, ThreeLineText, PlaceholderText, BigFieldTagText,
     BigAlternativeTagText, SynthTagText}
        \cup {FieldText(type) : type \in FieldTypes}
        \cup {DeclaredBefore(type) : type \in FieldTypes}
        \cup {DeclaredAfter(type) : type \in FieldTypes}
        \cup ComponentsTexts
        \cup {ChoiceText(n) : n \in {1, 3, MaxAlternatives - 2, MaxAlternatives - 1, MaxAlternatives}}
        \cup {AliasText(n, back) : n \in {2, 3}, back \in {-1, 0}}

----------------------------------------------------------------------------
(* main from the schema text on: the text is compiled, the root type is    *)
(* looked up, and process_file runs over the input file.                   *)

\* 30 05 80 03 01 02 03: a SEQUENCE around [0] with three content octets
FileRecord == <<48, 5, 128, 3, 1, 2, 3>>

\* 30 03 04 01 05: a SEQUENCE around an OCTET STRING
FileOctets == <<48, 3, 4, 1, 5>>

CompileFiles == {<<>>, FileRecord, FileJunk \o FileRecord \o FileJunk, FileOctets}

CompileRoots == {"R", "T"}

InitCompile ==
    /\ overflow_checks \in BOOLEAN
    /\ schema = EmptySchema
    /\ schema_text \in SchemaTexts
    /\ hash_order = <<>>
    /\ type_name \in CompileRoots
    /\ data \in CompileFiles
    /\ offset = 0
    /\ tlv = NoTlv
    /\ out = <<>>
    /\ root_start = 0
    /\ count = 0
    /\ records = <<>>
    /\ prev = NoRun
    /\ pc = "parse"
    /\ inputs = <<>>
    /\ workers = <<>>
    /\ outputs = <<>>
    /\ reports = <<>>

\* let parsed = Asn1Schema::parse(&schema_text)?; DerDecoder::new(schema)
ParseSchema ==
    /\ pc = "parse"
    /\ \E r \in {parse(schema_text)} :
           /\ schema' = r.schema
           /\ hash_order' = [i \in 1..MaxKeys(r.schema) |-> i]
           /\ pc' = IF r.st = "ok" THEN "parsed"
                    ELSE IF r.st = "abort" THEN "abort" ELSE "error"
    /\ UNCHANGED <<overflow_checks, schema_text, data, offset, tlv, type_name, out,
                   root_start, count, records, prev>>
    /\ UNCHANGED driver_vars

\* if !decoder.schema.knows_type(&root_type) { return Err(...) }
CheckRoot ==
    /\ pc = "parsed"
    /\ pc' = IF knows_type(type_name) THEN "start" ELSE "error"
    /\ UNCHANGED <<overflow_checks, schema_text, data, offset, tlv, schema, hash_order,
                   type_name, out, root_start, count, records, prev>>
    /\ UNCHANGED driver_vars

NextCompile ==
    \/ ParseSchema
    \/ CheckRoot
    \/ ProcessFile
    \/ ScanStep
    \/ ScanEnd
    \/ WriteRecord
    \/ Flush

SpecCompile == InitCompile /\ [][NextCompile]_vars

\* the characters of {"a":"010203"} and the newline after the record
LineA010203 ==
    <<"{", "\"", "a", "\"", ":", "\"", "0", "1", "0", "2", "0", "3", "\"", "}", "\n">>

\* C15: compiling R ::= SEQUENCE { a [0] INTEGER } as written on one line and
\* decoding 30 05 80 03 01 02 03 with root type R ends with exactly the line
\* {"a":"010203"} written, the field a being in R's table under (CONTEXT,0).
C15_OneLineScenario ==
    (schema_text = OneLineText /\ type_name = "R" /\ data = FileRecord /\ pc = "done")
        => /\ out = LineA010203
           /\ <<2, U32(0)>> \in DOMAIN schema.sequences["R"]

\* the fields of R after compilation that are named a
FieldsNamedA ==
    IF "R" \in DOMAIN schema.sequences
    THEN {k \in DOMAIN schema.sequences["R"] : schema.sequences["R"][k].name = <<"a">>}
    ELSE {}

\* the universal tag numbers the specification lists for the primitive kinds
ListedUniversalTag ==
    (<<"INTEGER">> :> 2) @@ (<<"OCTET", "STRING">> :> 4) @@ (<<"BIT", "STRING">> :> 3)
        @@ (<<"BOOLEAN">> :> 1) @@ (<<"NULL">> :> 5) @@ (<<"ENUMERATED">> :> 10)
        @@ (<<"UTF8String">> :> 12) @@ (<<"IA5String">> :> 22)
        @@ (<<"OBJECT", "IDENTIFIER">> :> 6) @@ (<<"TBCD-STRING">> :> 4)
        @@ (<<"GraphicString">> :> 25) @@ (<<"VisibleString">> :> 26)

\* C16: a SEQUENCE field that declares one of the twelve primitive kinds
\* without a tag is kept in the field table under that kind's universal tag,
\* the two-word kinds included.
C16_PrimitiveFieldUnderUniversalTag ==
    \A kind \in PrimitiveKinds :
        (schema_text = FieldText(kind) /\ pc = "parsed")
            => FieldsNamedA = {TagKey(0, ListedUniversalTag[kind])}

\* C17: the key a SEQUENCE field is stored under is the tag written at the
\* field, otherwise the outer tag of the field's own type, (U,16) for a field
\* written SEQUENCE OF T and (U,17) for SET OF T whatever T is.
C17_FieldKeyIsOwnOuterTag ==
    /\ \A type \in {<<"SEQUENCE", "OF", "INTEGER">>, <<"SEQUENCE", "OF", "Q">>} :
           (schema_text \in {FieldText(type), DeclaredBefore(type), DeclaredAfter(type)}
                /\ pc = "parsed")
               => FieldsNamedA = {TagKey(0, 16)}
    /\ \A type \in {<<"SET", "OF", "INTEGER">>, <<"SET", "OF", "X">>} :
           (schema_text \in {FieldText(type), DeclaredBefore(type), DeclaredAfter(type)}
                /\ pc = "parsed")
               => FieldsNamedA = {TagKey(0, 17)}
    /\ \A type \in {<<"Q">>, <<"S">>, <<"L">>, <<"X">>, <<"O">>, <<"T">>} :
           (schema_text \in {DeclaredBefore(type), DeclaredAfter(type)} /\ pc = "parsed")
               => FieldsNamedA = {tag_for_type(type[1])[1]}
    /\ (pc = "parsed" /\ "R" \in DOMAIN schema.sequences
            /\ (\E type \in FieldTypes :
                   schema_text \in {FieldText(type), DeclaredBefore(type), DeclaredAfter(type)}))
           => /\ TagKey(2, 9) \in DOMAIN schema.sequences["R"]
              /\ schema.sequences["R"][TagKey(2, 9)].name = <<"z">>

\* the names of the fields in the table of a SEQUENCE or SET after compilation
FieldNames(type) ==
    IF type \in DOMAIN schema.sequences
    THEN {schema.sequences[type][k].name : k \in DOMAIN schema.sequences[type]}
    ELSE {}

\* C18: after compilation the table of every type whose body has
\* COMPONENTS OF S holds every field of S's final table, the fields S has
\* through its own COMPONENTS OF included, in whatever order T and S are
\* declared.
C18_ComponentsOfIsTransitive ==
    (schema_text \in ComponentsTexts /\ pc = "parsed")
        => /\ FieldNames("S") \subseteq FieldNames("T")
           /\ FieldNames("B") \subseteq FieldNames("S")
           /\ FieldNames("B") = {<<"b">>}

\* the retained alternatives of the untagged CHOICE of ChoiceText(n) are n
Alternatives(text) == CHOOSE n \in 1..MaxAlternatives : text = ChoiceText(n)

\* C19: for an untagged CHOICE with any number of alternatives compilation
\* does not abort, keeps at most 255 alternatives, and the i-th kept one has
\* the key (PRIVATE, SYNTH_BASE + i) with no overflow of the 32-bit number.
C19_SyntheticKeysBounded ==
    (pc # "parse" /\ \E n \in 1..MaxAlternatives : schema_text = ChoiceText(n))
        => /\ pc # "abort"
           /\ "U" \in DOMAIN schema.choices
           /\ Cardinality(DOMAIN schema.choices["U"]) <= 255
           /\ \A k \in DOMAIN schema.choices["U"] :
                  /\ k[1] = 3
                  /\ k[2][1] = SYNTH_CHOICE_BASE[1]
                  /\ k[2][2] >= SYNTH_CHOICE_BASE[2]
                  /\ k[2][2] - SYNTH_CHOICE_BASE[2] < Alternatives(schema_text)

----------------------------------------------------------------------------
(* resolve_alias on the alias tables parse builds: chains of every length  *)
(* around the bound, open or closed into a cycle.                          *)

InitAlias ==
    /\ overflow_checks \in BOOLEAN
    /\ schema = EmptySchema
    /\ schema_text \in AliasTexts
    /\ hash_order = <<>>
    /\ type_name \in {AliasNames[i] : i \in 1..(MaxChain + 2)} \cup {"R"}
    /\ data = <<>>
    /\ offset = 0
    /\ tlv = NoTlv
    /\ out = <<>>
    /\ root_start = 0
    /\ count = 0
    /\ records = <<>>
    /\ prev = NoRun
    /\ pc = "parse"
    /\ inputs = <<>>
    /\ workers = <<>>
    /\ outputs = <<>>
    /\ reports = <<>>

\* a call of resolve_alias on a name, and on what the call before returned
ResolveAlias ==
    /\ pc \in {"parsed", "resolved"}
    /\ type_name' = resolve_alias(type_name)
    /\ pc' = "resolved"
    /\ UNCHANGED <<overflow_checks, schema_text, data, offset, tlv, schema, hash_order, out,
                   root_start, count, records, prev>>
    /\ UNCHANGED driver_vars

NextAlias ==
    \/ ParseSchema
    \/ ResolveAlias

SpecAlias == InitAlias /\ [][NextAlias]_vars

\* C14: resolve_alias(resolve_alias(x)) = resolve_alias(x) for every alias
\* table and name x: a call on the result of a call returns it unchanged,
\* also when the table has a cycle or a chain longer than the bound.
C14_ResolveAliasIdempotent ==
    [][pc = "resolved" => type_name' = type_name]_vars

----------------------------------------------------------------------------
(* write_choice on a schema with untagged alternatives of every kind: a    *)
(* SEQUENCE, a SET, a CHOICE with and without an outer tag, a SEQUENCE     *)
(* with an outer tag, a SEQUENCE OF and a primitive.                       *)

\* Sq ::= SEQUENCE { a [0] INTEGER }      St ::= SET { b [0] INTEGER }
\* G  ::= [APPLICATION 5] CHOICE { m [0] INTEGER, n [1] Sq }
\* H  ::= CHOICE { h [2] INTEGER, i [3] Sq }
\* X  ::= [APPLICATION 6] SEQUENCE { a [0] INTEGER }
\* Lq ::= SEQUENCE OF INTEGER
\* W  ::= CHOICE { s Sq, t St, g G, h H, x X, l Lq, i INTEGER }
\* V  ::= CHOICE { t St, s Sq }
Schema2 ==
    [choices |->
        ("G" :> (
            (TagKey(2, 0) :> <<<<"m">>, "INTEGER">>) @@
            (TagKey(2, 1) :> <<<<"n">>, "Sq">>))) @@
        ("H" :> (
            (TagKey(2, 2) :> <<<<"h">>, "INTEGER">>) @@
            (TagKey(2, 3) :> <<<<"i">>, "Sq">>))) @@
        ("W" :> (
            (synth_key(0) :> <<<<"s">>, "Sq">>) @@
            (synth_key(1) :> <<<<"t">>, "St">>) @@
            (synth_key(2) :> <<<<"g">>, "G">>) @@
            (synth_key(3) :> <<<<"h">>, "H">>) @@
            (synth_key(4) :> <<<<"x">>, "X">>) @@
            (synth_key(5) :> <<<<"l">>, "Lq">>) @@
            (synth_key(6) :> <<<<"i">>, "INTEGER">>))) @@
        ("V" :> (
            (synth_key(0) :> <<<<"t">>, "St">>) @@
            (synth_key(1) :> <<<<"s">>, "Sq">>))),
     sequences |->
        ("Sq" :> (
            (TagKey(2, 0) :> FieldSpec(<<"a">>, "INTEGER", FALSE, FALSE, FALSE)))) @@
        ("X" :> (
            (TagKey(2, 0) :> FieldSpec(<<"a">>, "INTEGER", FALSE, FALSE, FALSE)))),
     sets |->
        ("St" :> (
            (TagKey(2, 0) :> FieldSpec(<<"b">>, "INTEGER", FALSE, FALSE, FALSE)))),
     seq_of_types |-> ("Lq" :> "INTEGER"),
     set_of_types |-> EmptyMap,
     primitives |-> EmptyMap,
     aliases |-> EmptyMap,
     type_outer_tag |-> ("G" :> TagKey(1, 5)) @@ ("X" :> TagKey(1, 6))]

ProbeSequence == <<48, 0>>                       \* 30 00
ProbeSet == <<49, 0>>                            \* 31 00
ProbeSetOfSequence == <<49, 2, 48, 0>>           \* 31 02 30 00
ProbeSequenceOfSet == <<48, 2, 49, 0>>           \* 30 02 31 00
ProbeG == <<101, 3, 128, 1, 7>>                  \* 65 03 80 01 07: [APPLICATION 5] around [0]
ProbeGDeep == <<101, 4, 164, 2, 128, 0>>         \* 65 04 a4 02 80 00: around [4] around [0]
ProbeH == <<130, 1, 9>>                          \* 82 01 09: [2], an alternative of H
ProbeHInner == <<164, 3, 130, 1, 9>>             \* a4 03 82 01 09: [4] around [2]
ProbeX == <<102, 3, 128, 1, 7>>                  \* 66 03 80 01 07: [APPLICATION 6] around [0]
ProbeInteger == <<2, 1, 5>>                      \* 02 01 05
ProbeOctets == <<4, 2, 48, 0>>                   \* 04 02 30 00: OCTET STRING around 30 00
ProbeUnknown == <<12, 0>>                        \* 0c 00: in no alternative
ProbeHuge == <<48, 10, 4, 136, 255, 255, 255, 255, 255, 255, 255, 255>>

ProbeItems ==
    {ProbeSequence, ProbeSet, ProbeSetOfSequence, ProbeSequenceOfSet, ProbeG, ProbeGDeep,
     ProbeH, ProbeHInner, ProbeX, ProbeInteger, ProbeOctets, ProbeUnknown, ProbeHuge}

\* one TLV, alone or followed by another
ProbeBodies == {<<>>} \cup {i \o j : i \in ProbeItems, j \in ProbeItems \cup {<<>>}}

ProbeTypes == {"W", "V", "G", "H"}

InitChoice ==
    /\ overflow_checks \in BOOLEAN
    /\ schema = Schema2
    /\ schema_text = <<>>
    /\ hash_order = [i \in 1..MaxKeys(Schema2) |-> i]
    /\ type_name \in ProbeTypes
    /\ data \in ProbeBodies
    /\ offset = 0
    /\ tlv = NoTlv
    /\ out = <<>>
    /\ root_start = 0
    /\ count = 0
    /\ records = <<>>
    /\ prev = NoRun
    /\ pc = "call"
    /\ inputs = <<>>
    /\ workers = <<>>
    /\ outputs = <<>>
    /\ reports = <<>>

NextChoice == DecodeCall

SpecChoice == InitChoice /\ [][NextChoice]_vars

\* the candidates of write_choice that are there: the outer TLV and, if
\* any, the TLV inside it
Candidates(outer) ==
    <<outer>> \o (IF InnerCandidate(outer).st = "some" THEN <<InnerCandidate(outer)>> ELSE <<>>)

\* no candidate carries the key of an alternative
NoDirectMatch(cands, alts) == \A i \in 1..Len(cands) : KeyOf(cands[i]) \notin DOMAIN alts

\* the ordinals of the untagged alternatives some candidate matches
MatchingOrdinals(cands, alts) ==
    {n \in 0..255 :
        /\ synth_key(n) \in DOMAIN alts
        /\ \E i \in 1..Len(cands) : choice_alt_matches_tlv(alts[synth_key(n)][2], cands[i])}

Lowest(ns) == CHOOSE n \in ns : \A m \in ns : n <= m

\* the first candidate the alternative alt matches
FirstMatching(cands, alt) ==
    cands[Lowest({i \in 1..Len(cands) : choice_alt_matches_tlv(alt[2], cands[i])})]

\* {"<altName>": <bytes decoded as the alternative's type>}
ProbeMember(alt, bytes) ==
    <<"{">> \o write_json_key(alt[1]) \o <<":">> \o write_type(bytes, alt[2]).out \o <<"}">>

UnknownAlternative(outer) ==
    <<"{">> \o write_json_key(<<"u", "n", "k", "n", "o", "w", "n", "_",
                                "a", "l", "t", "e", "r", "n", "a", "t", "i", "v", "e">>)
            \o <<":">> \o write_hex_json(outer.raw) \o <<"}">>

\* the type of an alternative is a CHOICE that has no outer tag of its own
IsBareChoice(t) ==
    /\ resolve_alias(t) \in DOMAIN schema.choices
    /\ resolve_alias(t) \notin DOMAIN schema.type_outer_tag

\* C25 as stated, on its example: for a CHOICE whose untagged alternatives
\* start with s of a SEQUENCE type and t of a SET type, a universal
\* constructed tag-17 TLV that no alternative key matches is written as
\* alternative t, decoded as the SET type.
C25_Tag17IsTheSetAlternative ==
    (pc = "ret" /\ type_name = "W") =>
        \A outer \in {parse_tlv(data, 0)} :
            (/\ outer.st = "some"
             /\ outer.tag_class = 0 /\ outer.constructed /\ outer.tag_num = U32(17)
             /\ NoDirectMatch(Candidates(outer), schema.choices["W"]))
            => out = ProbeMember(schema.choices["W"][synth_key(1)], outer.value)

\* C25 amended: when no candidate's tag key is an alternative key, the
\* alternative written is the untagged alternative of lowest ordinal that
\* matches any candidate (the outer TLV or the TLV inside it), decoded from
\* the first candidate it matches; if none matches, unknown_alternative with
\* the hex of the outer TLV is written.  A SEQUENCE / SEQUENCE OF type
\* without an outer tag of its own matches only a universal constructed
\* tag-16 candidate, a SET / SET OF type only a universal constructed tag-17
\* one, a type with an outer tag only a candidate with that tag key.
C25_LowestOrdinalOverAllCandidates ==
    (pc = "ret" /\ resolve_alias(type_name) \in DOMAIN schema.choices) =>
        \A alts \in {schema.choices[resolve_alias(type_name)]} :
        \A outer \in {parse_tlv(data, 0)} :
            outer.st = "some" =>
                \A cands \in {Candidates(outer)} :
                    NoDirectMatch(cands, alts) =>
                        \A ns \in {MatchingOrdinals(cands, alts)} :
                            IF ns = {} THEN out = UnknownAlternative(outer)
                            ELSE \A alt \in {alts[synth_key(Lowest(ns))]} :
                                 \A cand \in {FirstMatching(cands, alt)} :
                                    /\ out = ProbeMember(alt, IF IsBareChoice(alt[2])
                                                              THEN cand.raw ELSE cand.value)
                                    /\ resolve_alias(alt[2]) \in DOMAIN schema.type_outer_tag
                                          => KeyOf(cand) = schema.type_outer_tag[resolve_alias(alt[2])]
                                    /\ (/\ resolve_alias(alt[2]) \notin DOMAIN schema.type_outer_tag
                                        /\ resolve_alias(alt[2]) \in
                                              DOMAIN schema.sequences \cup DOMAIN schema.seq_of_types)
                                          => (KeyOf(cand) = TagKey(0, 16) /\ cand.constructed)
                                    /\ (/\ resolve_alias(alt[2]) \notin DOMAIN schema.type_outer_tag
                                        /\ resolve_alias(alt[2]) \in
                                              DOMAIN schema.sets \cup DOMAIN schema.set_of_types)
                                          => (KeyOf(cand) = TagKey(0, 17) /\ cand.constructed)

\* C25's case: a SET whose first member is a SEQUENCE, decoded as W: the
\* SEQUENCE alternative s, of lower ordinal, matches the TLV inside and is
\* written; the SET alternative t matches the outer TLV and is not
C25_WitnessInnerMatchOfLowerOrdinal ==
    /\ pc = "ret" /\ type_name = "W"
    /\ parse_tlv(data, 0).st = "some"
    /\ KeyOf(parse_tlv(data, 0)) = TagKey(0, 17) /\ parse_tlv(data, 0).constructed
    /\ NoDirectMatch(Candidates(parse_tlv(data, 0)), schema.choices["W"])
    /\ {0, 1} \subseteq MatchingOrdinals(Candidates(parse_tlv(data, 0)), schema.choices["W"])
    /\ out = ProbeMember(schema.choices["W"][synth_key(0)],
                         InnerCandidate(parse_tlv(data, 0)).value)

\* the untagged alternative the probe of write_choice settles on for the
\* candidates, and the candidate it is decoded from
ProbeAlt(cands, alts) == alts[synth_key(Lowest(MatchingOrdinals(cands, alts)))]

ProbeCand(cands, alts) == FirstMatching(cands, ProbeAlt(cands, alts))

\* the probe is reached and an alternative matches
ProbeHits(outer, alts) ==
    /\ outer.st = "some"
    /\ NoDirectMatch(Candidates(outer), alts)
    /\ MatchingOrdinals(Candidates(outer), alts) # {}

\* C26 as stated: when an untagged alternative matches a candidate, the
\* bytes decoded are candidate.raw whenever the alternative's alias-resolved
\* type is a CHOICE, and candidate.value in every other case.
C26_RawForEveryChoice ==
    (pc = "ret" /\ resolve_alias(type_name) \in DOMAIN schema.choices) =>
        \A alts \in {schema.choices[resolve_alias(type_name)]} :
        \A outer \in {parse_tlv(data, 0)} :
            ProbeHits(outer, alts) =>
                \A alt \in {ProbeAlt(Candidates(outer), alts)} :
                \A cand \in {ProbeCand(Candidates(outer), alts)} :
                    out = ProbeMember(alt, IF resolve_alias(alt[2]) \in DOMAIN schema.choices
                                           THEN cand.raw ELSE cand.value)

\* C26 amended: the bytes decoded are candidate.raw when the alternative's
\* alias-resolved type is a CHOICE that has no outer tag of its own, and
\* candidate.value in every other case: for a CHOICE declared with an outer
\* tag the candidate is that wrapper and its content is handed on.
C26_RawForChoiceWithoutOuterTag ==
    (pc = "ret" /\ resolve_alias(type_name) \in DOMAIN schema.choices) =>
        \A alts \in {schema.choices[resolve_alias(type_name)]} :
        \A outer \in {parse_tlv(data, 0)} :
            ProbeHits(outer, alts) =>
                \A alt \in {ProbeAlt(Candidates(outer), alts)} :
                \A cand \in {ProbeCand(Candidates(outer), alts)} :
                    out = ProbeMember(alt, IF IsBareChoice(alt[2]) THEN cand.raw
                                           ELSE cand.value)

\* C26's cases: an alternative of a CHOICE type with an outer tag matches,
\* and decoding the candidate's content differs from decoding its raw bytes
C26_WitnessOuterTaggedChoice ==
    /\ pc = "ret" /\ resolve_alias(type_name) \in DOMAIN schema.choices
    /\ ProbeHits(parse_tlv(data, 0), schema.choices[resolve_alias(type_name)])
    /\ \E alt \in {ProbeAlt(Candidates(parse_tlv(data, 0)),
                            schema.choices[resolve_alias(type_name)])} :
       \E cand \in {ProbeCand(Candidates(parse_tlv(data, 0)),
                              schema.choices[resolve_alias(type_name)])} :
           /\ resolve_alias(alt[2]) \in DOMAIN schema.choices
           /\ resolve_alias(alt[2]) \in DOMAIN schema.type_outer_tag
           /\ out = ProbeMember(alt, cand.value)
           /\ out # ProbeMember(alt, cand.raw)

\* an alternative of a CHOICE type without an outer tag matches and is
\* decoded from the candidate's raw bytes
C26_WitnessBareChoice ==
    /\ pc = "ret" /\ resolve_alias(type_name) \in DOMAIN schema.choices
    /\ ProbeHits(parse_tlv(data, 0), schema.choices[resolve_alias(type_name)])
    /\ \E alt \in {ProbeAlt(Candidates(parse_tlv(data, 0)),
                            schema.choices[resolve_alias(type_name)])} :
       \E cand \in {ProbeCand(Candidates(parse_tlv(data, 0)),
                              schema.choices[resolve_alias(type_name)])} :
           /\ IsBareChoice(alt[2])
           /\ out = ProbeMember(alt, cand.raw)
           /\ out # ProbeMember(alt, cand.value)

----------------------------------------------------------------------------
(* Indefinite lengths: what parse_tlv returns against the grammar of a TLV *)
(* stream closed by its end-of-contents octets.                            *)

\* the value of the length octets d[off .. off+n), or -1 if it is 65536 or more
LengthValue(d, off, n) ==
    IF \E i \in 0..(n - 3) : At(d, off + i) # 0 THEN -1
    ELSE (IF n >= 2 THEN At(d, off + n - 2) * 256 ELSE 0) + At(d, off + n - 1)

\* the offset of the length octet of the TLV at off, -1 if the tag is cut
LengthOffset(d, off) ==
    IF At(d, off) % 32 # 31 THEN off + 1
    ELSE LET ends == {i \in (off + 1)..(Len(d) - 1) : At(d, i) < 128}
         IN  IF ends = {} THEN -1 ELSE 1 + CHOOSE i \in ends : \A j \in ends : i <= j

RECURSIVE StreamEnd(_, _)
RECURSIVE TlvEnd(_, _)

\* the offset of the 00 00 that closes the stream of well-formed TLVs
\* starting at off, -1 if there is no such stream
StreamEnd(d, off) ==
    IF off + 2 > Len(d) THEN -1
    ELSE IF At(d, off) = 0 /\ At(d, off + 1) = 0 THEN off
    ELSE Bind(TlvEnd(d, off), LAMBDA e : IF e < 0 THEN -1 ELSE StreamEnd(d, e))

\* the offset after the well-formed TLV at off, -1 if there is none: tag
\* octets, then either 80, a stream and its 00 00 (constructed only), or a
\* definite length and as many content octets
TlvEnd(d, off) ==
    Bind(LengthOffset(d, off), LAMBDA lo :
        IF lo < 0 \/ lo >= Len(d) THEN -1
        ELSE IF At(d, lo) = 128
        THEN IF (At(d, off) \div 32) % 2 = 0 THEN -1
             ELSE Bind(StreamEnd(d, lo + 1), LAMBDA s : IF s < 0 THEN -1 ELSE s + 2)
        ELSE IF At(d, lo) < 128
        THEN IF lo + 1 + At(d, lo) > Len(d) THEN -1 ELSE lo + 1 + At(d, lo)
        ELSE Bind(At(d, lo) - 128, LAMBDA n :
                 IF lo + 1 + n > Len(d) \/ LengthValue(d, lo + 1, n) < 0
                    \/ lo + 1 + n + LengthValue(d, lo + 1, n) > Len(d)
                 THEN -1
                 ELSE lo + 1 + n + LengthValue(d, lo + 1, n)))

\* the TLV at offset is constructed, has the length octet 80, and its
\* content is a well-formed stream closed by its own 00 00
IsIndefiniteStreamAt(d, off) ==
    /\ off < Len(d)
    /\ (At(d, off) \div 32) % 2 = 1
    /\ LengthOffset(d, off) >= 0 /\ LengthOffset(d, off) < Len(d)
    /\ At(d, LengthOffset(d, off)) = 128
    /\ StreamEnd(d, LengthOffset(d, off) + 1) >= 0

\* 30 80 04 01 11 04 01 22 00 00
IndefiniteExample == Wrap(<<4, 1, 17, 4, 1, 34>>)

\* ["11","22"]
IndefiniteExampleLine ==
    <<"[", "\"", "1", "1", "\"", ",", "\"", "2", "2", "\"", "]">>

\* C27: for a constructed TLV with length octet 0x80 whose content is a
\* well-formed TLV stream (nested indefinite-length TLVs included, at any
\* depth) followed by its own 00 00, parse_tlv returns value = the content up
\* to but excluding the balancing end-of-contents and next_offset just after
\* it; 30 80 04 01 11 04 01 22 00 00 decoded as SEQUENCE OF OCTET STRING is
\* ["11","22"].
C27_IndefiniteValueEndsAtBalancingEoc ==
    (pc # "call" /\ IsIndefiniteStreamAt(data, offset)) =>
        \A cs \in {LengthOffset(data, offset) + 1} :
        \A s \in {StreamEnd(data, cs)} :
            /\ pc = "ret"
            /\ tlv.st = "some"
            /\ tlv.value = Slice(data, cs, s)
            /\ tlv.next = s + 2
            /\ (data = IndefiniteExample /\ offset = 0)
                  => write_sequence_of(tlv.value, "OCTET").out = IndefiniteExampleLine

\* C27's case: indefinite-length TLVs nested three deep around content, the
\* balancing end-of-contents being the third 00 00 after the content
C27_WitnessNestedThreeDeep ==
    /\ pc = "ret" /\ tlv.st = "some"
    /\ IsIndefiniteStreamAt(data, offset)
    /\ IsIndefiniteStreamAt(tlv.value, 0)
    /\ \E inner \in {parse_tlv(tlv.value, 0)} :
          /\ inner.st = "some" /\ inner.next = Len(tlv.value)
          /\ IsIndefiniteStreamAt(inner.value, 0)
          /\ parse_tlv(inner.value, 0).value # <<>>
    /\ tlv.next < Len(data)

\* the example of C27 is parsed
C27_WitnessExample ==
    /\ pc = "ret" /\ data = IndefiniteExample /\ offset = 0
    /\ write_sequence_of(tlv.value, "OCTET").out = IndefiniteExampleLine

----------------------------------------------------------------------------
(* parse_tlv applied to the raw bytes of a TLV it returned.                *)

\* C30: for every TLV t that parse_tlv(data, offset) returns,
\* parse_tlv(t.raw, 0) succeeds with the same class, constructed bit, tag
\* number, value and raw, and with next_offset = t.raw.len(); so write_choice
\* handed t.raw (a CHOICE-typed field, an element of a SEQUENCE OF CHOICE)
\* does not take the branch that writes null because the outer TLV cannot be
\* parsed.
C30_ReparseOfRawIsTheSameTlv ==
    (pc = "ret" /\ tlv.st = "some") =>
        \A again \in {parse_tlv(tlv.raw, 0)} :
            /\ again.st = "some"
            /\ again.tag_class = tlv.tag_class
            /\ again.constructed = tlv.constructed
            /\ again.tag_num = tlv.tag_num
            /\ again.value = tlv.value
            /\ again.raw = tlv.raw
            /\ again.next = Len(tlv.raw)
            /\ write_choice(tlv.raw, EmptyMap).out # <<"n", "u", "l", "l">>

\* C30's case: an indefinite-length TLV with content, taken from the middle
\* of a buffer, parsed again from its raw bytes
C30_WitnessIndefiniteFromTheMiddle ==
    /\ pc = "ret" /\ tlv.st = "some"
    /\ offset > 0 /\ tlv.next < Len(data)
    /\ IsIndefiniteAt(data, offset)
    /\ tlv.value # <<>>
    /\ parse_tlv(tlv.raw, 0).raw = tlv.raw
    /\ parse_tlv(tlv.raw, 0).value = tlv.value

\* a definite-length TLV with a long-form tag and one with a long-form
\* length, parsed again from their raw bytes
C30_WitnessLongForms ==
    /\ pc = "ret" /\ tlv.st = "some"
    /\ ~IsIndefiniteAt(data, offset)
    /\ Len(tlv.raw) > Len(tlv.value) + 2
    /\ parse_tlv(tlv.raw, 0).raw = tlv.raw

----------------------------------------------------------------------------
(* Declaration order: a field's type declared before or after the          *)
(* SEQUENCE that names it.                                                 *)

\* the key the field's own kind gives: (U,16) for Q (a SEQUENCE) and L (a
\* SEQUENCE OF), (U,17) for S (a SET)
OwnStructureKey == (<<"Q">> :> TagKey(0, 16)) @@ (<<"L">> :> TagKey(0, 16))
                       @@ (<<"S">> :> TagKey(0, 17))

\* C29: compilation does not depend on declaration order: an untagged field
\* of R whose type is a SEQUENCE, SET or SEQUENCE OF type declared before R
\* or after it is kept in R's field table under (U,16) / (U,17), and the two
\* orders of the declarations give the same field table for R.
C29_DeclarationOrderIrrelevant ==
    \A type \in DOMAIN OwnStructureKey :
        /\ (schema_text \in {DeclaredBefore(type), DeclaredAfter(type)} /\ pc = "parsed")
               => FieldsNamedA = {OwnStructureKey[type]}
        /\ (schema_text = DeclaredAfter(type) /\ pc = "parsed")
               => schema.sequences["R"] = parse(DeclaredBefore(type)).schema.sequences["R"]

----------------------------------------------------------------------------
(* The calls of write_type, one at a time: from the call on the root       *)
(* record down one path of the recursion.                                  *)

\* the TLVs the loops of write_sequence and write_sequence_of go through:
\* from off on, up to the first offset where parse_tlv fails or stays
RECURSIVE loop_tlvs(_, _)
loop_tlvs(d, off) ==
    IF ~(off < Len(d)) THEN <<>>
    ELSE Bind(parse_tlv(d, off), LAMBDA t :
             IF t.st # "some" \/ t.next <= off THEN <<>>
             ELSE <<t>> \o loop_tlvs(d, t.next))

\* the call made for one TLV decoded as type: on raw for a CHOICE, on the
\* content of a constructed TLV, none for a primitive one
tlv_calls(t, type, is_choice) ==
    IF is_choice THEN {[bytes |-> t.raw, type |-> type]}
    ELSE IF t.constructed THEN {[bytes |-> t.value, type |-> type]}
    ELSE {}

\* the calls made for the TLVs tlvs, each the content of one the elements are
\* read from (of) or itself decoded as the type
member_calls(tlvs, of, type) ==
    Bind(resolve_alias(type) \in DOMAIN schema.choices, LAMBDA is_choice :
    Bind(IF of THEN [i \in 1..Len(tlvs) |-> loop_tlvs(tlvs[i].value, 0)]
         ELSE [i \in 1..Len(tlvs) |-> <<tlvs[i]>>], LAMBDA parts :
        UNION {UNION {tlv_calls(parts[i][j], type, is_choice) : j \in 1..Len(parts[i])} :
                  i \in 1..Len(parts)}))

\* the calls write_sequence(d, field_spec) makes to write_type, through
\* write_sequence_of for a field written SEQUENCE OF / SET OF
write_sequence_calls(tlvs, field_spec) ==
    UNION {member_calls(<<tlvs[i]>>,
                        field_spec[KeyOf(tlvs[i])].is_sequence_of
                           \/ field_spec[KeyOf(tlvs[i])].is_set_of,
                        field_spec[KeyOf(tlvs[i])].field_type) :
              i \in {j \in 1..Len(tlvs) : KeyOf(tlvs[j]) \in DOMAIN field_spec}}

\* the call write_choice makes to write_type, outer being parse_tlv(d, 0)
write_choice_calls(outer, alts) ==
    IF outer.st # "some" THEN {}
    ELSE Bind(choice_candidates(outer), LAMBDA all :
         Bind(some_candidates(all), LAMBDA cands :
         Bind(direct_match(cands, alts), LAMBDA dm :
             IF \E i \in 1..Len(all) : all[i].st = "abort" THEN {}
             ELSE IF dm # 0
             THEN {[bytes |-> cands[dm].value, type |-> alts[KeyOf(cands[dm])][2]]}
             ELSE Bind(synth_match(synth_keys(alts), cands, alts), LAMBDA sm :
                      IF sm.cand = 0 THEN {}
                      ELSE {[bytes |-> synth_bytes(alts[<<3, sm.key>>][2], cands[sm.cand]),
                             type |-> alts[<<3, sm.key>>][2]]}))))

\* the calls write_type(d, t) makes to write_type
write_type_calls(d, t) ==
    Bind(resolve_alias(t), LAMBDA rt :
    Bind(loop_tlvs(d, 0), LAMBDA tlvs :
        IF rt \in DOMAIN schema.seq_of_types \cup DOMAIN schema.set_of_types
        THEN member_calls(<<[value |-> d]>>, TRUE,
                          IF rt \in DOMAIN schema.seq_of_types
                          THEN schema.seq_of_types[rt] ELSE schema.set_of_types[rt])
        ELSE IF rt \in DOMAIN schema.choices
        THEN write_choice_calls(IF tlvs = <<>> THEN parse_tlv(d, 0) ELSE tlvs[1],
                                schema.choices[rt])
        ELSE IF rt \in DOMAIN schema.sequences \cup DOMAIN schema.sets
        THEN write_sequence_calls(tlvs, IF rt \in DOMAIN schema.sequences
                                        THEN schema.sequences[rt] ELSE schema.sets[rt])
        ELSE {}))

\* a schema with a recursive SEQUENCE, a recursive CHOICE, an untagged CHOICE
\* with a CHOICE and itself among its alternatives, a SET OF CHOICE, and a
\* cycle of two aliases
RecursiveText ==
    Lines(<<
        <<"R", "::=", "SEQUENCE", "{">>,
        <<"a", "[", "0", "]", "INTEGER", ",">>,
        <<"r", "[", "1", "]", "R", ",">>,
        <<"c", "[", "2", "]", "C", ",">>,
        <<"l", "[", "3", "]", "SEQUENCE", "OF", "R", ",">>,
        <<"u", "[", "4", "]", "U", ",">>,
        <<"t", "[", "5", "]", "A0">>,
        <<"}">>,
        <<"C", "::=", "CHOICE", "{">>,
        <<"x", "[", "0", "]", "R", ",">>,
        <<"y", "[", "1", "]", "C">>,
        <<"}">>,
        <<"U", "::=", "CHOICE", "{">>,
        <<"q", "C", ",">>,
        <<"s", "R", ",">>,
        <<"u", "U">>,
        <<"}">>,
        <<"M", "::=", "SET", "OF", "U">>,
        <<"A0", "::=", "A1">>,
        <<"A1", "::=", "A0">>>>)

\* the name D defined twice, as a CHOICE with an untagged alternative of its
\* own type and as a SEQUENCE
DuplicateText ==
    Lines(<<
        <<"D", "::=", "CHOICE", "{">>,
        <<"x", "D">>,
        <<"}">>,
        <<"D", "::=", "SEQUENCE", "{">>,
        <<"a", "[", "0", "]", "INTEGER">>,
        <<"}">>>>)

CallTexts == {RecursiveText, DuplicateText}

CallRoots == {"R", "C", "U", "M", "D"}

\* root records: r around c around x; u around a SEQUENCE; l around a
\* SEQUENCE; [0] for q of U; y around y around x; t around anything; an empty
\* SEQUENCE; a SET of two; and no TLV
CallFiles ==
    {<<48, 8, 161, 6, 162, 4, 160, 2, 128, 0>>,
     <<48, 6, 164, 4, 48, 2, 128, 0>>,
     <<48, 4, 163, 2, 48, 0>>,
     <<160, 2, 128, 0>>,
     <<161, 4, 161, 2, 160, 0>>,
     <<48, 4, 165, 2, 48, 0>>,
     <<48, 0>>,
     <<49, 6, 160, 0, 48, 2, 161, 0>>,
     <<5>>}

InitCalls ==
    /\ overflow_checks \in BOOLEAN
    /\ schema = EmptySchema
    /\ schema_text \in CallTexts
    /\ hash_order = <<>>
    /\ type_name \in CallRoots
    /\ data \in CallFiles
    /\ offset = 0
    /\ tlv = NoTlv
    /\ out = <<>>
    /\ root_start = 0
    /\ count = 0
    /\ records = <<>>
    /\ prev = NoRun
    /\ pc = "parse"
    /\ inputs = <<>>
    /\ workers = <<>>
    /\ outputs = <<>>
    /\ reports = <<>>

\* the root record at the start of the file is found and
\* write_root_tlv_with_type calls write_type on its raw bytes or its content
RootCall ==
    /\ pc = "parsed"
    /\ \E t \in {parse_tlv(data, 0)} :
           IF t.st = "abort" THEN pc' = "abort" /\ UNCHANGED <<data, tlv>>
           ELSE IF ~knows_type(type_name) THEN pc' = "error" /\ UNCHANGED <<data, tlv>>
           ELSE IF t.st = "some" /\ t.next > 0 /\ tlv_matches_root(t, type_name)
           THEN /\ tlv' = t
                /\ data' = IF resolve_alias(type_name) \in DOMAIN schema.type_outer_tag
                           THEN t.value
                           ELSE IF resolve_alias(type_name) \in DOMAIN schema.choices
                           THEN t.raw
                           ELSE t.value
                /\ pc' = "call"
           ELSE pc' = "skip" /\ UNCHANGED <<data, tlv>>
    /\ UNCHANGED <<overflow_checks, schema_text, offset, schema, hash_order, type_name, out,
                   root_start, count, records, prev>>
    /\ UNCHANGED driver_vars

\* write_type(data, type_name) makes one of its calls to write_type, on
\* other bytes or for another type; count is the number of calls in a row on
\* a slice that is not shorter
Descend ==
    /\ pc = "call"
    /\ count < MaxSameSlice
    /\ \E c \in write_type_calls(data, type_name) \ {[bytes |-> data, type |-> type_name]} :
           /\ data' = c.bytes
           /\ type_name' = c.type
           /\ count' = IF Len(c.bytes) < Len(data) THEN 0 ELSE count + 1
    /\ UNCHANGED <<overflow_checks, schema_text, offset, tlv, schema, hash_order, out,
                   root_start, records, prev, pc>>
    /\ UNCHANGED driver_vars

\* write_type(data, type_name) calls write_type with the same bytes and the
\* same type: the call made does the same, and the stack runs out
Recurse ==
    /\ pc = "call"
    /\ [bytes |-> data, type |-> type_name] \in write_type_calls(data, type_name)
    /\ pc' = "overflow"
    /\ UNCHANGED <<overflow_checks, schema_text, data, offset, tlv, schema, hash_order,
                   type_name, out, root_start, count, records, prev>>
    /\ UNCHANGED driver_vars

\* write_type(data, type_name) makes no call to write_type, and returns
Return ==
    /\ pc = "call"
    /\ write_type_calls(data, type_name) = {}
    /\ pc' = "leaf"
    /\ UNCHANGED <<overflow_checks, schema_text, data, offset, tlv, schema, hash_order,
                   type_name, out, root_start, count, records, prev>>
    /\ UNCHANGED driver_vars

NextCalls ==
    \/ ParseSchema
    \/ RootCall
    \/ Descend
    \/ Recurse
    \/ Return

SpecCalls == InitCalls /\ [][NextCalls]_vars

\* the program runs on: a call that can be made or returned from is
SpecCallsLive == SpecCalls /\ WF_vars(NextCalls)

\* C28: for every compiled schema and every finite input, decoding one root
\* record terminates: each call of write_type from write_sequence,
\* write_sequence_of and write_choice is on a strictly shorter slice, or the
\* chain of calls on the same bytes reaches a shorter slice after a bounded
\* number of steps; so every path of calls ends in a call that returns, and
\* none runs the stack out.
C28_DecodingTerminates ==
    /\ <>(pc \in {"leaf", "skip", "error", "abort"})
    /\ [](pc # "overflow")
    /\ [](count < MaxSameSlice)

\* the same for the schemas in which no name is defined twice: at most two
\* calls in a row are on a slice that is not shorter
C28_TerminatesWithoutDuplicateNames ==
    (schema_text # DuplicateText) =>
        /\ <>(pc \in {"leaf", "skip", "error", "abort"})
        /\ [](pc # "overflow")
        /\ [](count <= 2)

----------------------------------------------------------------------------
(* A run over several files: main from create_dir_all on, expand_inputs,   *)
(* and one process_file per input file on the rayon pool. The steps of a   *)
(* worker that touch the file system are separate actions, so that the     *)
(* workers interleave at those steps. pc ends at "error" (main returns an  *)
(* Err: a fatal error), "exit" (main returns Ok(())) or "abort" (a panic   *)
(* left main).                                                             *)

\* the files on disk, in the order of PathBuf's Ord
Paths == <<"a/e", "a/h", "a/x", "a/y", "b/x">>

PathSet == {Paths[i] : i \in 1..Len(Paths)}

PathRank(p) == CHOOSE i \in 1..Len(Paths) : Paths[i] = p

\* Path::file_name: the last component
file_name(p) ==
    CASE p = "a/e" -> "e"
      [] p = "a/h" -> "h"
      [] p = "a/x" -> "x"
      [] p = "a/y" -> "y"
      [] p = "b/x" -> "x"

\* format!("{}.jsonl", file_name), the name inside out_dir
out_path(p) == <<file_name(p), ".jsonl">>

\* what the files contain: two records of either root type in either order,
\* one nested record, a record followed by a length of 2^64 - 1, and nothing
Content(p) ==
    CASE p = "a/e" -> <<>>
      [] p = "a/h" -> FileSet \o FileHuge
      [] p = "a/x" -> FileSeq \o FileSet
      [] p = "a/y" -> FileSet \o FileSeq
      [] p = "b/x" -> FileNested \o FileSet

\* Schema1 and an alias of a type that is declared nowhere
DriverSchema ==
    [Schema1 EXCEPT !.primitives = @ @@ ("A" :> "Z"), !.aliases = @ @@ ("A" :> "Z")]

\* root types: an alias of a SEQUENCE, a SET, a name the schema does not
\* have and an alias of such a name
DriverRoots == {"T", "S", "Z", "A"}

\* files.sort()
RECURSIVE insert_sorted(_, _)
insert_sorted(sorted, p) ==
    IF sorted = <<>> THEN <<p>>
    ELSE IF PathRank(p) < PathRank(Head(sorted)) THEN <<p>> \o sorted
    ELSE <<Head(sorted)>> \o insert_sorted(Tail(sorted), p)

RECURSIVE sort(_)
sort(files) ==
    IF files = <<>> THEN <<>> ELSE insert_sorted(sort(Tail(files)), Head(files))

\* files.dedup(): of equal neighbours the first stays
RECURSIVE dedup(_)
dedup(files) ==
    IF Len(files) < 2 THEN files
    ELSE IF files[1] = files[2] THEN dedup(Tail(files))
    ELSE <<Head(files)>> \o dedup(Tail(files))

\* a dedup that leaves the list as it is
dedup_none(files) == files

\* expand_inputs on paths that are all files, with no extension filter
expand_inputs(paths) == dedup(sort(paths))

\* find_next_root_tlv: st is "some", "none" or "abort" (a panic in parse_tlv)
RECURSIVE find_next_root_tlv(_, _, _)
find_next_root_tlv(d, start, root_type) ==
    IF ~(start < Len(d)) THEN [st |-> "none", tlv |-> NoTlv]
    ELSE Bind(parse_tlv(d, start),
              LAMBDA t :
                  IF t.st = "abort" THEN [st |-> "abort", tlv |-> NoTlv]
                  ELSE IF t.st = "some" /\ t.next > start /\ tlv_matches_root(t, root_type)
                  THEN [st |-> "some", tlv |-> t]
                  ELSE find_next_root_tlv(d, retry_from(start), root_type))

\* the loop of process_file from offset on: what went to the writer, the
\* count, and st: "ok", "abort" (a panic) or "err"
RECURSIVE process_file_loop(_, _, _, _, _)
process_file_loop(d, root_type, at, written, n) ==
    IF ~(at < Len(d)) THEN [out |-> written, count |-> n, st |-> "ok"]
    ELSE Bind(find_next_root_tlv(d, at, root_type),
              LAMBDA f :
                  IF f.st = "none" THEN [out |-> written, count |-> n, st |-> "ok"]
                  ELSE IF f.st = "abort" THEN [out |-> written, count |-> n, st |-> "abort"]
                  ELSE Bind(write_root_tlv_with_type(f.tlv, root_type),
                            LAMBDA w :
                                IF w.st = "ok"
                                THEN process_file_loop(d, root_type, next_offset(f.tlv),
                                                       written \o w.out \o <<"\n">>, n + 1)
                                ELSE [out |-> written \o w.out, count |-> n, st |-> w.st]))

\* a worker that has not started, and the results of process_file
Idle == [pc |-> "idle", res |-> "", count |-> 0]

Failed == [pc |-> "done", res |-> "err", count |-> 0]

Panicked == [pc |-> "done", res |-> "panic", count |-> 0]

Decoded(n) == [pc |-> "done", res |-> "ok", count |-> n]

\* File::create: the file exists afterwards and is empty
Truncated(files, name) ==
    [f \in DOMAIN files \cup {name} |-> IF f = name THEN <<>> ELSE files[f]]

\* the writer's one write of its buffer, at the start of the file its own
\* handle was opened on; what the file holds beyond the buffer's length stays
WrittenAt(files, name, text) ==
    [files EXCEPT ![name] = text \o SubSeq(@, Len(text) + 1, Len(@))]

\* the output directory does not exist
NoDirectory == <<"no directory">>

InitDriver ==
    /\ overflow_checks \in BOOLEAN
    /\ schema = DriverSchema
    /\ schema_text = <<>>
    /\ hash_order = [i \in 1..MaxKeys(DriverSchema) |-> i]
    /\ type_name \in DriverRoots
    /\ data = <<>>
    /\ offset = 0
    /\ tlv = NoTlv
    /\ out = <<>>
    /\ root_start = 0
    /\ count = 0
    /\ records = <<>>
    /\ prev = NoRun
    /\ inputs \in SeqsUpTo(PathSet, MaxInputs)
    /\ workers = <<>>
    /\ outputs \in {NoDirectory, <<>>}
    /\ reports = <<>>
    /\ pc = "dir"

\* std::fs::create_dir_all(&cli.output_dir)?: nothing to do for a directory
\* that exists; creating one can fail
CreateOutputDir ==
    /\ pc = "dir"
    /\ \E ok \in IF outputs = NoDirectory THEN BOOLEAN ELSE {TRUE} :
           IF ok
           THEN /\ outputs' = <<>>
                /\ pc' = "parsed"
           ELSE /\ pc' = "error"
                /\ UNCHANGED outputs
    /\ UNCHANGED <<overflow_checks, schema_text, data, offset, tlv, schema, hash_order,
                   type_name, out, root_start, count, records, prev, inputs, workers, reports>>

\* let input_files = expand_inputs(...)?; the return on an empty list; the
\* jobs of par_iter() exist from here on
ExpandInputs ==
    /\ pc = "start"
    /\ inputs' = expand_inputs(inputs)
    /\ workers' = [i \in 1..Len(inputs') |-> Idle]
    /\ pc' = IF inputs' = <<>> THEN "exit" ELSE "workers"
    /\ UNCHANGED <<overflow_checks, schema_text, data, offset, tlv, schema, hash_order,
                   type_name, out, root_start, count, records, prev, outputs, reports>>

\* File::open(in_path)
OpenInput ==
    \E i \in 1..Len(workers) :
        /\ pc = "workers"
        /\ workers[i].pc = "idle"
        /\ \E ok \in BOOLEAN :
               workers' = [workers EXCEPT ![i] = IF ok THEN [@ EXCEPT !.pc = "opened"] ELSE Failed]
        /\ UNCHANGED <<overflow_checks, schema_text, data, offset, tlv, schema, hash_order,
                       type_name, out, root_start, count, records, prev, inputs, outputs, reports,
                       pc>>

\* Mmap::map(&file)? and the return of Ok(0) for an empty file
MapInput ==
    \E i \in 1..Len(workers) :
        /\ pc = "workers"
        /\ workers[i].pc = "opened"
        /\ \E ok \in BOOLEAN :
               workers' = [workers EXCEPT ![i] =
                               IF ~ok THEN Failed
                               ELSE IF Content(inputs[i]) = <<>> THEN Decoded(0)
                               ELSE [@ EXCEPT !.pc = "mapped"]]
        /\ UNCHANGED <<overflow_checks, schema_text, data, offset, tlv, schema, hash_order,
                       type_name, out, root_start, count, records, prev, inputs, outputs, reports,
                       pc>>

\* File::create(&out_path) with out_path = out_dir.join(file_name + ".jsonl")
CreateOutput ==
    \E i \in 1..Len(workers) :
        /\ pc = "workers"
        /\ workers[i].pc = "mapped"
        /\ \E ok \in BOOLEAN :
               IF ok
               THEN /\ workers' = [workers EXCEPT ![i] = [@ EXCEPT !.pc = "created"]]
                    /\ outputs' = Truncated(outputs, out_path(inputs[i]))
               ELSE /\ workers' = [workers EXCEPT ![i] = Failed]
                    /\ UNCHANGED outputs
        /\ UNCHANGED <<overflow_checks, schema_text, data, offset, tlv, schema, hash_order,
                       type_name, out, root_start, count, records, prev, inputs, reports, pc>>

\* the loop of process_file and writer.flush(): the records of a file of this
\* size stay in the writer's buffer until the flush, or until the writer is
\* dropped on a panic. A write that fails leaves the file as it was.
DecodeAndFlush ==
    \E i \in 1..Len(workers) :
        /\ pc = "workers"
        /\ workers[i].pc = "created"
        /\ \E r \in {process_file_loop(Content(inputs[i]), type_name, 0, <<>>, 0)} :
           \E ok \in BOOLEAN :
               /\ workers' = [workers EXCEPT ![i] =
                                  IF r.st = "abort" THEN Panicked
                                  ELSE IF r.st = "ok" /\ ok THEN Decoded(r.count)
                                  ELSE Failed]
               /\ outputs' = IF ok THEN WrittenAt(outputs, out_path(inputs[i]), r.out)
                             ELSE outputs
        /\ UNCHANGED <<overflow_checks, schema_text, data, offset, tlv, schema, hash_order,
                       type_name, out, root_start, count, records, prev, inputs, reports, pc>>

\* collect() returns when every job has run; a panic of a job is resumed in
\* main then. Otherwise main prints one line per file and returns Ok(()).
Collect ==
    /\ pc = "workers"
    /\ \A i \in 1..Len(workers) : workers[i].pc = "done"
    /\ IF \E i \in 1..Len(workers) : workers[i].res = "panic"
       THEN /\ pc' = "abort"
            /\ UNCHANGED reports
       ELSE /\ pc' = "exit"
            /\ reports' = [i \in 1..Len(workers) |->
                              [path |-> inputs[i], ok |-> workers[i].res = "ok",
                               count |-> workers[i].count]]
    /\ UNCHANGED <<overflow_checks, schema_text, data, offset, tlv, schema, hash_order,
                   type_name, out, root_start, count, records, prev, inputs, workers, outputs>>

NextDriver ==
    \/ CreateOutputDir
    \/ CheckRoot
    \/ ExpandInputs
    \/ OpenInput
    \/ MapInput
    \/ CreateOutput
    \/ DecodeAndFlush
    \/ Collect

SpecDriver == InitDriver /\ [][NextDriver]_vars

\* the names the compiled schema has a type under
SchemaTypes ==
    DOMAIN schema.choices \cup DOMAIN schema.sequences \cup DOMAIN schema.sets
        \cup DOMAIN schema.seq_of_types \cup DOMAIN schema.set_of_types
        \cup DOMAIN schema.primitives

RootResolves == resolve_alias(type_name) \in SchemaTypes

NoWorkerStarted == \A i \in 1..Len(workers) : workers[i] = Idle

\* C22: when the root type name does not resolve, through the aliases, to a
\* type of the compiled schema, the run never gets past the check of the root
\* type: it ends in the fatal error, no worker is ever started (no input file
\* opened), the output directory holds no file and no per-file line is
\* printed.
C22_UnknownRootFailsFast ==
    ~RootResolves =>
        /\ pc \in {"dir", "parsed", "error"}
        /\ workers = <<>>
        /\ outputs \in {NoDirectory, <<>>}
        /\ reports = <<>>

\* a run on two input files whose root type is an alias of an undeclared
\* name has created the output directory and has ended with the fatal error
C22_WitnessAliasOfUndeclaredName ==
    /\ type_name = "A"
    /\ inputs = <<"a/x", "a/y">>
    /\ outputs = <<>>
    /\ pc = "error"

\* what process_file writes and counts for the file at p when nothing else
\* touches its output
Alone(p) == process_file_loop(Content(p), type_name, 0, <<>>, 0)

AllDone == \A i \in 1..Len(workers) : workers[i].pc = "done"

\* the worker has returned Ok and has created an output file
WroteOutput(i) == workers[i].res = "ok" /\ Content(inputs[i]) # <<>>

\* C23: no two workers hold the same output file open for writing, and when
\* all workers are done the output file of every worker that returned Ok
\* holds exactly the lines of that worker's input file, in order.
C23_WorkersDoNotInterfere ==
    /\ \A i, j \in 1..Len(workers) :
           (i # j /\ workers[i].pc = "created" /\ workers[j].pc = "created")
               => out_path(inputs[i]) # out_path(inputs[j])
    /\ AllDone =>
           \A i \in 1..Len(workers) :
               WroteOutput(i) => outputs[out_path(inputs[i])] = Alone(inputs[i]).out

\* the run is over: main has returned after collect(), or a panic has left it
RunOver == pc \in {"exit", "abort"} /\ workers # <<>>

\* C21: when the run is over and process_file has returned an Err for some
\* file, main has returned Ok(()), the failure is printed for the failing files
\* and for no other, and every other file has been decoded to the end: its
\* count is printed and its output file holds what it holds when the file is
\* processed alone.
C21_FailureIsolated ==
    (RunOver /\ \E i \in 1..Len(workers) : workers[i].res = "err") =>
        /\ pc = "exit"
        /\ \A i \in 1..Len(workers) :
               IF workers[i].res = "err"
               THEN reports[i] = [path |-> inputs[i], ok |-> FALSE, count |-> 0]
               ELSE /\ reports[i] = [path |-> inputs[i], ok |-> TRUE,
                                     count |-> Alone(inputs[i]).count]
                    /\ Content(inputs[i]) # <<>>
                           => outputs[out_path(inputs[i])] = Alone(inputs[i]).out

\* no two input files share an output name and no file makes the decoder panic
DistinctNamesNoPanic ==
    /\ \A i, j \in 1..Len(inputs) : i # j => out_path(inputs[i]) # out_path(inputs[j])
    /\ \A i \in 1..Len(inputs) : Alone(inputs[i]).st = "ok"

\* C21 holds for such inputs
C21_IsolatedForDistinctNamesWithoutPanic ==
    (pc \in {"workers", "exit", "abort"} /\ DistinctNamesNoPanic) => C21_FailureIsolated

\* C23 holds for such inputs
C23_NoInterferenceForDistinctNames ==
    (pc \in {"workers", "exit", "abort"} /\ DistinctNamesNoPanic) => C23_WorkersDoNotInterfere

====
